---- MODULE Spec2Model ----
(***************************************************************************)
(* The disk-backed TreeKEM tree of lib/tree/disk: Element records linked   *)
(* by pointers, one JSON record per node in the storage directory, the     *)
(* level-order re-indexing pass and the timestamp change tracking.         *)
(*                                                                         *)
(* Pointers are node identities (1..), Nil is the nil pointer.  Names and  *)
(* file paths are strings built the way fmt.Sprintf / filepath.Join build  *)
(* them.  A time.Time is the number of clock ticks since the zero time.    *)
(***************************************************************************)
EXTENDS Integers, Sequences, FiniteSets, TLC

VARIABLES
    heap,           \* the allocated Elements: pointer -> Element struct
    head,           \* Tree.head
    nextNodeIndex,  \* Tree.nextNodeIndex
    disk,           \* the storage directory: file path -> elementData
    now,            \* the reading time.Now() returns
    ret,            \* the last call and what it returned
    given,          \* history: member name -> payload passed to its last Insert
    scn,            \* history: progress of the insert-N / delete-every-other scenario
    trk,            \* history: nodes updated since the last MarkAllAsChecked
    steps,          \* history: the number of Insert and Delete calls made
    membersOnly,    \* history: every Delete so far named a member
    issued,         \* history: the highest leafIndex an Insert has handed out, -1 if none
    proc            \* the call each thread is in the middle of, and its local variables

vars == <<heap, head, nextNodeIndex, disk, now, ret, given, scn, trk, steps, membersOnly,
          issued, proc>>

\* ------------------------------------------------------------------ bounds

MaxOps == 6         \* the structural runs make at most this many Insert / Delete calls
MaxTrackOps == 3    \* the change-tracking runs make at most this many
MaxTime == 2        \* the clock stops advancing at this reading
MaxQueryOps == 5    \* the runs with read-only calls make at most this many
MaxIOOps == 4       \* the runs with failing writes make at most this many calls
MaxWrite == 2       \* the write of a call that fails is at most this one
MaxSinceOps == 5    \* the runs that ask for changes make at most this many Insert / Delete
MaxRemoveOps == 5   \* the runs with failing removals make at most this many calls
MaxDupOps == 4      \* the runs that insert names again make at most this many calls
MaxElementOps == 4  \* the runs with calls on single Elements make at most this many calls
MaxReadOps == 2     \* the runs with queries in several threads make at most this many Insert / Delete
MaxWriteOps == 3    \* the runs with Inserts in several threads make at most this many
MaxFill == 5        \* the insert-only runs make at most this many Inserts
MaxIndex == 40      \* the node indices given to SetNodeIndex are at most this

MemberNames == {"a", "b", "c"}
Values == {"k1", "k2"}
TrackNames == {"a", "b"}
TrackKeys == {"k2"}
FillNames == {"a", "b", "c", "d", "e", "f"}
QueryNames == {"a", "b", "c", "d"}

\* ------------------------------------------------------------ Go constants

Nil == 0            \* the nil pointer
ZeroTime == 0       \* time.Time{}
rootPath == "root"

\* ------------------------------------------------------------------ helpers

Max(S) == CHOOSE x \in S : \A y \in S : y <= x
Min(S) == CHOOSE x \in S : \A y \in S : x <= y
Range(s) == {s[i] : i \in DOMAIN s}
Put(f, k, v) == [x \in DOMAIN f \cup {k} |-> IF x = k THEN v ELSE f[x]]
Drop(f, k) == [x \in DOMAIN f \ {k} |-> f[x]]
IndexOf(s, x) == Min({i \in DOMAIN s : s[i] = x})

\* a fresh pointer: the allocator never returns a live address
NewPtr(h) == Min((1..(Cardinality(DOMAIN h) + 1)) \ DOMAIN h)

\* fmt.Sprintf("intermediate_%s_%s", l, r)
IntermediateName(l, r) == "intermediate_" \o l \o "_" \o r

\* Tree.generateFilePath
generateFilePath(name) == rootPath \o "/" \o name \o ".json"

\* ---------------------------------------------------------------- traversals

\* the nodes reachable from n through leftChild / rightChild
RECURSIVE Subtree(_, _)
Subtree(h, n) ==
    IF n = Nil THEN {}
    ELSE {n} \cup Subtree(h, h[n].leftChild) \cup Subtree(h, h[n].rightChild)

\* the children a breadth-first loop appends to its queue, left before right
Children(h, n) ==
    (IF h[n].leftChild # Nil THEN <<h[n].leftChild>> ELSE <<>>)
    \o (IF h[n].rightChild # Nil THEN <<h[n].rightChild>> ELSE <<>>)

\* the order in which the queue loops of Find / reassignNodeIndices /
\* GetNodeByIndex visit the nodes
RECURSIVE BreadthFirst(_, _)
BreadthFirst(h, queue) ==
    IF queue = <<>> THEN <<>>
    ELSE <<Head(queue)>> \o BreadthFirst(h, Tail(queue) \o Children(h, Head(queue)))

BFS(h, hd) == IF hd = Nil THEN <<>> ELSE BreadthFirst(h, <<hd>>)

\* pre-order: node, left subtree, right subtree (the recursive traverse closures)
RECURSIVE PreOrder(_, _)
PreOrder(h, n) ==
    IF n = Nil THEN <<>>
    ELSE <<n>> \o PreOrder(h, h[n].leftChild) \o PreOrder(h, h[n].rightChild)

\* post-order: children first (updateNames of renameIntermediateNodes)
RECURSIVE PostOrder(_, _)
PostOrder(h, n) ==
    IF n = Nil THEN <<>>
    ELSE PostOrder(h, h[n].leftChild) \o PostOrder(h, h[n].rightChild) \o <<n>>

\* Element.IsLeaf
IsLeaf(h, n) == h[n].leftChild = Nil /\ h[n].rightChild = Nil

\* countLeaves
RECURSIVE countLeaves(_, _)
countLeaves(h, n) ==
    IF n = Nil THEN 0
    ELSE IF h[n].leftChild = Nil /\ h[n].rightChild = Nil THEN 1
    ELSE countLeaves(h, h[n].leftChild) + countLeaves(h, h[n].rightChild)

\* Tree.GetLeaves
RECURSIVE collectLeaves(_, _)
collectLeaves(h, n) ==
    IF n = Nil THEN <<>>
    ELSE IF IsLeaf(h, n) THEN <<n>>
    ELSE collectLeaves(h, h[n].leftChild) \o collectLeaves(h, h[n].rightChild)

GetLeaves(h, hd) == collectLeaves(h, hd)

\* Tree.getNextLeafIndex
getNextLeafIndex(h, hd) ==
    IF hd = Nil THEN 0
    ELSE Max({-1} \cup {h[l].leafIndex : l \in Range(GetLeaves(h, hd))}) + 1

\* collectLeafNames
RECURSIVE collectLeafNames(_, _)
collectLeafNames(h, n) ==
    IF n = Nil THEN <<>>
    ELSE IF h[n].nodeType = "leaf" THEN <<h[n].name>>
    ELSE collectLeafNames(h, h[n].leftChild) \o collectLeafNames(h, h[n].rightChild)

\* ------------------------------------------------------------ index arithmetic

\* Element.ParentIndex
ParentIndex(nodeIndex) == IF nodeIndex = 0 THEN -1 ELSE (nodeIndex - 1) \div 2
\* Element.LeftChildIndex
LeftChildIndex(nodeIndex) == 2 * nodeIndex + 1
\* Element.RightChildIndex
RightChildIndex(nodeIndex) == 2 * nodeIndex + 2

\* a numbering that walks depth-first instead of draining a queue
M_reassignPreOrder(h, hd) ==
    LET order == PreOrder(h, hd)
    IN  [n \in DOMAIN h |->
            IF n \in Range(order)
            THEN [h[n] EXCEPT !.nodeIndex = IndexOf(order, n) - 1]
            ELSE h[n]]

\* Element.SiblingIndex
SiblingIndex(nodeIndex) ==
    IF nodeIndex = 0 THEN -1
    ELSE IF nodeIndex % 2 = 1 THEN nodeIndex + 1
    ELSE nodeIndex - 1
\* Element.IsLeftChild
IsLeftChild(nodeIndex) == nodeIndex > 0 /\ nodeIndex % 2 = 1
\* an IsRightChild that forgets the root
M_IsRightChildEven(nodeIndex) == nodeIndex % 2 = 0
\* Element.IsRightChild
IsRightChild(nodeIndex) == nodeIndex > 0 /\ nodeIndex % 2 = 0
\* Element.SetNodeIndex
SetNodeIndex(h, e, index) == [h EXCEPT ![e].nodeIndex = index]

\* Tree.reassignNodeIndices: the heap with the indices rewritten
reassignNodeIndices(h, hd) ==
    LET order == BFS(h, hd)
    IN  [n \in DOMAIN h |->
            IF n \in Range(order)
            THEN [h[n] EXCEPT !.nodeIndex = IndexOf(order, n) - 1]
            ELSE h[n]]

\* ... and the value it leaves in t.nextNodeIndex
reassignNext(h, hd, nni) == IF hd = Nil THEN nni ELSE Len(BFS(h, hd))

\* a search that stops below the children of the head
M_FindShallow(h, hd, name) ==
    LET order == IF hd = Nil THEN <<>> ELSE <<hd>> \o Children(h, hd)
        hits == {i \in DOMAIN order : h[order[i]].name = name}
    IN  IF hits = {} THEN Nil ELSE order[Min(hits)]

\* Tree.Find: the first node of the breadth-first order with that name, or Nil
Find(h, hd, name) ==
    LET order == BFS(h, hd)
        hits == {i \in DOMAIN order : h[order[i]].name = name}
    IN  IF hits = {} THEN Nil ELSE order[Min(hits)]

\* Tree.GetNodeByIndex
GetNodeByIndex(h, hd, targetIndex) ==
    LET order == BFS(h, hd)
        hits == {i \in DOMAIN order : h[order[i]].nodeIndex = targetIndex}
    IN  IF hits = {} THEN Nil ELSE order[Min(hits)]

\* the findPath closure of Tree.GetPath: the path it leaves behind when it
\* returns true from node, <<>> when it returns false (every append undone)
RECURSIVE findPath(_, _, _)
findPath(h, node, targetName) ==
    IF node = Nil THEN <<>>
    ELSE IF h[node].name = targetName THEN <<node>>
    ELSE LET l == findPath(h, h[node].leftChild, targetName)
         IN  IF l # <<>> THEN <<node>> \o l
             ELSE LET r == findPath(h, h[node].rightChild, targetName)
                  IN  IF r # <<>> THEN <<node>> \o r ELSE <<>>

\* a GetPath whose search never takes a visited node off the path again
M_GetPathNoBacktrack(h, hd, leafName) ==
    LET order == PreOrder(h, hd)
        hits == {i \in DOMAIN order : h[order[i]].name = leafName}
    IN  IF hd = Nil \/ hits = {} THEN [path |-> <<>>, err |-> TRUE]
        ELSE [path |-> SubSeq(order, 1, Min(hits)), err |-> FALSE]

\* Tree.GetPath
GetPath(h, hd, leafName) ==
    IF hd = Nil THEN [path |-> <<>>, err |-> TRUE]
    ELSE LET path == findPath(h, hd, leafName)
         IN  IF path # <<>> THEN [path |-> path, err |-> FALSE]
             ELSE [path |-> <<>>, err |-> TRUE]

\* the tree.NodeInfo that GetTreeStructure builds for node
NodeInfo(h, node) ==
    [Name |-> h[node].name, PublicKey |-> h[node].publicKey,
     NodeType |-> h[node].nodeType, LeafIndex |-> h[node].leafIndex,
     NodeIndex |-> h[node].nodeIndex, ParentIndex |-> ParentIndex(h[node].nodeIndex),
     LeftChild |-> IF h[node].leftChild # Nil THEN h[h[node].leftChild].name ELSE "",
     RightChild |-> IF h[node].rightChild # Nil THEN h[h[node].rightChild].name ELSE ""]

\* the traverse closure of GetTreeStructure over the nodes todo:
\* structure[node.name] = info, a later node replacing an earlier entry
RECURSIVE traverseStructure(_, _, _)
traverseStructure(h, todo, structure) ==
    IF todo = <<>> THEN structure
    ELSE traverseStructure(h, Tail(todo),
                           Put(structure, h[Head(todo)].name, NodeInfo(h, Head(todo))))

\* Tree.GetTreeStructure
GetTreeStructure(h, hd) == traverseStructure(h, PreOrder(h, hd), <<>>)

\* ------------------------------------------------------------------- the disk

\* the elementData that saveToDisk marshals for element e
elementData(h, e) ==
    [Name |-> h[e].name,
     PublicKey |-> h[e].publicKey,
     LeftCount |-> h[e].leftCount,
     RightCount |-> h[e].rightCount,
     LeftChild |-> IF h[e].leftChild # Nil THEN h[h[e].leftChild].filePath ELSE "",
     RightChild |-> IF h[e].rightChild # Nil THEN h[h[e].rightChild].filePath ELSE "",
     NodeType |-> h[e].nodeType,
     LeafIndex |-> h[e].leafIndex,
     LastModified |-> h[e].lastModified,
     LastChecked |-> h[e].lastChecked]

\* Element.saveToDisk on the running state st = [heap, disk, nni, w]:
\* w = 1 means that this os.WriteFile fails, w = 0 that no write fails
saveToDisk(st, e) ==
    IF st.heap[e].filePath = "" THEN [st |-> st, err |-> TRUE]
    ELSE IF st.w = 1 THEN [st |-> [st EXCEPT !.w = 0], err |-> TRUE]
    ELSE [st |-> [st EXCEPT !.disk = Put(@, st.heap[e].filePath, elementData(st.heap, e)),
                            !.w = IF @ > 1 THEN @ - 1 ELSE 0],
          err |-> FALSE]

\* the outcomes of the os.Remove calls of a Delete: of the one on the file
\* of the node found, and of those on the old files of renamed intermediates
RemoveOutcomes == [found : BOOLEAN, rename : BOOLEAN]
AllRemoved == [found |-> TRUE, rename |-> TRUE]

\* os.Remove: rm says whether the removal succeeds
osRemove(d, path, rm) == IF rm /\ path \in DOMAIN d THEN Drop(d, path) ELSE d

\* loadFromDisk(filePath): the Element read back, its children loaded through
\* the paths the record names (a child that fails to load is left nil).
\* stack holds the paths whose load is in progress: a record that names one
\* of them is loaded again within its own load, without end ("overflow").
RECURSIVE loadFromDisk(_, _, _)
loadFromDisk(d, filePath, stack) ==
    IF filePath \notin DOMAIN d THEN [status |-> "err"]
    ELSE IF filePath \in stack THEN [status |-> "overflow"]
    ELSE LET data == d[filePath]
             l == IF data.LeftChild # ""
                  THEN loadFromDisk(d, data.LeftChild, stack \cup {filePath})
                  ELSE [status |-> "err"]
             r == IF data.RightChild # ""
                  THEN loadFromDisk(d, data.RightChild, stack \cup {filePath})
                  ELSE [status |-> "err"]
         IN  IF l.status = "overflow" \/ r.status = "overflow"
             THEN [status |-> "overflow"]
             ELSE [status |-> "ok",
                   element |->
                      [name |-> data.Name, publicKey |-> data.PublicKey,
                       leftCount |-> data.LeftCount, rightCount |-> data.RightCount,
                       filePath |-> filePath,
                       nodeType |-> data.NodeType, leafIndex |-> data.LeafIndex,
                       nodeIndex |-> 0,
                       lastModified |-> data.LastModified,
                       lastChecked |-> data.LastChecked,
                       leftChild |-> IF l.status = "ok" THEN <<l.element>> ELSE <<>>,
                       rightChild |-> IF r.status = "ok" THEN <<r.element>> ELSE <<>>]]

\* LoadTree(rootPath, headName): the head is loaded when headName is not empty
\* and its file exists (os.Stat); a missing file gives an empty tree, no error
LoadTree(d, headName) ==
    IF headName # "" /\ generateFilePath(headName) \in DOMAIN d
    THEN LET l == loadFromDisk(d, generateFilePath(headName), {})
         IN  IF l.status = "ok" THEN [status |-> "ok", head |-> <<l.element>>]
             ELSE [status |-> l.status, head |-> <<>>]
    ELSE [status |-> "ok", head |-> <<>>]

\* ------------------------------------------------------------ change tracking

\* a SetValue that also makes the node count as modified
M_SetValueStamps(h, e, value) ==
    [h EXCEPT ![e].publicKey = value, ![e].lastModified = h[e].lastChecked + 1]
\* Element.SetValue
SetValue(h, e, value) == [h EXCEPT ![e].publicKey = value]
\* a MarkAsModified that stamps the wrong field
M_MarkAsModifiedChecked(h, e, t) == [h EXCEPT ![e].lastChecked = t]
\* Element.MarkAsModified, time.Now() reading t
MarkAsModified(h, e, t) == [h EXCEPT ![e].lastModified = t]
\* Element.MarkAsChecked, time.Now() reading t
MarkAsChecked(h, e, t) == [h EXCEPT ![e].lastChecked = t]
\* a NeedsUpdate that also reports equal stamps
M_NeedsUpdateNotBefore(h, e) == h[e].lastModified >= h[e].lastChecked
\* Element.NeedsUpdate: lastModified.After(lastChecked)
NeedsUpdate(h, e) == h[e].lastModified > h[e].lastChecked
\* Element.WasModifiedSince
WasModifiedSince(h, e, since) == h[e].lastModified > since

\* a GetNodesNeedingUpdate that looks at the members only
M_GetNodesNeedingUpdateLeaves(h, hd) ==
    SelectSeq(PreOrder(h, hd), LAMBDA e : NeedsUpdate(h, e) /\ h[e].nodeType = "leaf")
\* Tree.GetNodesNeedingUpdate: the traverse closure appends in pre-order
GetNodesNeedingUpdate(h, hd) == SelectSeq(PreOrder(h, hd), LAMBDA e : NeedsUpdate(h, e))

\* Tree.GetModifiedNodes: nil on the empty tree, else the nodes modified
\* since, appended in pre-order
GetModifiedNodes(h, hd, since) ==
    IF hd = Nil THEN <<>>
    ELSE SelectSeq(PreOrder(h, hd), LAMBDA e : WasModifiedSince(h, e, since))

\* the traverse closure of GetNodeChangesSince over the nodes todo:
\* changes[node.name] = node.lastModified for the nodes modified since
RECURSIVE traverseChanges(_, _, _, _)
traverseChanges(h, todo, since, changes) ==
    IF todo = <<>> THEN changes
    ELSE traverseChanges(h, Tail(todo), since,
             IF WasModifiedSince(h, Head(todo), since)
             THEN Put(changes, h[Head(todo)].name, h[Head(todo)].lastModified)
             ELSE changes)

\* Tree.GetNodeChangesSince
GetNodeChangesSince(h, hd, since) ==
    IF hd = Nil THEN <<>> ELSE traverseChanges(h, PreOrder(h, hd), since, <<>>)

\* the traverse closure of Tree.MarkAllAsChecked over the nodes todo, node i
\* reading the clock as at[i]; the results of saveToDisk are dropped
RECURSIVE markChecked(_, _, _)
markChecked(st, todo, at) ==
    IF todo = <<>> THEN st
    ELSE LET st1 == [st EXCEPT !.heap = MarkAsChecked(@, Head(todo), Head(at))]
         IN  markChecked(saveToDisk(st1, Head(todo)).st, Tail(todo), Tail(at))

\* ------------------------------------------------------------------- Insert

\* an insertToLeaf whose descent goes right when both sides hold as many leaves
RECURSIVE M_insertToLeafTiesRight(_, _, _)
M_insertToLeafTiesRight(st, cur, newNode) ==
    LET c == st.heap[cur] IN
    IF c.leftChild = Nil /\ c.rightChild = Nil
    THEN \* a leaf: split it under a new intermediate placeholder
        LET iname == IntermediateName(c.name, st.heap[newNode].name)
            ip == NewPtr(st.heap)
            intermediateNode ==
                [name |-> iname, publicKey |-> "", leftCount |-> 1, rightCount |-> 1,
                 leftChild |-> cur, rightChild |-> newNode,
                 filePath |-> generateFilePath(iname),
                 nodeType |-> "intermediate", leafIndex |-> 0,
                 nodeIndex |-> st.nni,
                 lastModified |-> st.t, lastChecked |-> ZeroTime]
            st1 == [st EXCEPT !.heap = ip :> intermediateNode @@ @, !.nni = @ + 1]
            sv == saveToDisk(st1, ip)
        IN  IF sv.err THEN [st |-> sv.st, ptr |-> cur, err |-> TRUE]
            ELSE [st |-> sv.st, ptr |-> ip, err |-> FALSE]
    ELSE \* not a leaf: go to the subtree with fewer leaves
        LET leftLeafCount == countLeaves(st.heap, c.leftChild)
            rightLeafCount == countLeaves(st.heap, c.rightChild)
        IN  IF leftLeafCount < rightLeafCount
            THEN IF c.leftChild = Nil
                 THEN LET st1 == [st EXCEPT !.heap[cur].leftChild = newNode,
                                            !.heap[cur].leftCount = 1]
                          sv == saveToDisk(st1, cur)
                      IN  [st |-> sv.st, ptr |-> cur, err |-> sv.err]
                 ELSE LET r == M_insertToLeafTiesRight(st, c.leftChild, newNode)
                      IN  IF r.err THEN [st |-> r.st, ptr |-> cur, err |-> TRUE]
                          ELSE LET st1 == [r.st EXCEPT !.heap[cur].leftChild = r.ptr,
                                                       !.heap[cur].leftCount = @ + 1]
                                   sv == saveToDisk(st1, cur)
                               IN  [st |-> sv.st, ptr |-> cur, err |-> sv.err]
            ELSE IF c.rightChild = Nil
                 THEN LET st1 == [st EXCEPT !.heap[cur].rightChild = newNode,
                                            !.heap[cur].rightCount = 1]
                          sv == saveToDisk(st1, cur)
                      IN  [st |-> sv.st, ptr |-> cur, err |-> sv.err]
                 ELSE LET r == M_insertToLeafTiesRight(st, c.rightChild, newNode)
                      IN  IF r.err THEN [st |-> r.st, ptr |-> cur, err |-> TRUE]
                          ELSE LET st1 == [r.st EXCEPT !.heap[cur].rightChild = r.ptr,
                                                       !.heap[cur].rightCount = @ + 1]
                                   sv == saveToDisk(st1, cur)
                               IN  [st |-> sv.st, ptr |-> cur, err |-> sv.err]

\* an insertToLeaf that adds the two new nodes to the counts on its way back
RECURSIVE M_insertToLeafCountsNodes(_, _, _)
M_insertToLeafCountsNodes(st, cur, newNode) ==
    LET c == st.heap[cur] IN
    IF c.leftChild = Nil /\ c.rightChild = Nil
    THEN \* a leaf: split it under a new intermediate placeholder
        LET iname == IntermediateName(c.name, st.heap[newNode].name)
            ip == NewPtr(st.heap)
            intermediateNode ==
                [name |-> iname, publicKey |-> "", leftCount |-> 1, rightCount |-> 1,
                 leftChild |-> cur, rightChild |-> newNode,
                 filePath |-> generateFilePath(iname),
                 nodeType |-> "intermediate", leafIndex |-> 0,
                 nodeIndex |-> st.nni,
                 lastModified |-> st.t, lastChecked |-> ZeroTime]
            st1 == [st EXCEPT !.heap = ip :> intermediateNode @@ @, !.nni = @ + 1]
            sv == saveToDisk(st1, ip)
        IN  IF sv.err THEN [st |-> sv.st, ptr |-> cur, err |-> TRUE]
            ELSE [st |-> sv.st, ptr |-> ip, err |-> FALSE]
    ELSE \* not a leaf: go to the subtree with fewer leaves
        LET leftLeafCount == countLeaves(st.heap, c.leftChild)
            rightLeafCount == countLeaves(st.heap, c.rightChild)
        IN  IF leftLeafCount <= rightLeafCount
            THEN IF c.leftChild = Nil
                 THEN LET st1 == [st EXCEPT !.heap[cur].leftChild = newNode,
                                            !.heap[cur].leftCount = 1]
                          sv == saveToDisk(st1, cur)
                      IN  [st |-> sv.st, ptr |-> cur, err |-> sv.err]
                 ELSE LET r == M_insertToLeafCountsNodes(st, c.leftChild, newNode)
                      IN  IF r.err THEN [st |-> r.st, ptr |-> cur, err |-> TRUE]
                          ELSE LET st1 == [r.st EXCEPT !.heap[cur].leftChild = r.ptr,
                                                       !.heap[cur].leftCount = @ + 2]
                                   sv == saveToDisk(st1, cur)
                               IN  [st |-> sv.st, ptr |-> cur, err |-> sv.err]
            ELSE IF c.rightChild = Nil
                 THEN LET st1 == [st EXCEPT !.heap[cur].rightChild = newNode,
                                            !.heap[cur].rightCount = 1]
                          sv == saveToDisk(st1, cur)
                      IN  [st |-> sv.st, ptr |-> cur, err |-> sv.err]
                 ELSE LET r == M_insertToLeafCountsNodes(st, c.rightChild, newNode)
                      IN  IF r.err THEN [st |-> r.st, ptr |-> cur, err |-> TRUE]
                          ELSE LET st1 == [r.st EXCEPT !.heap[cur].rightChild = r.ptr,
                                                       !.heap[cur].rightCount = @ + 2]
                                   sv == saveToDisk(st1, cur)
                               IN  [st |-> sv.st, ptr |-> cur, err |-> sv.err]

\* the insertToLeaf closure of Tree.Insert, called on the slot holding cur.
\* st = [heap, disk, nni, w, t]: t is the reading time.Now() gives the
\* intermediate.  Returns the state, the pointer the slot holds afterwards
\* (*nodePtr) and whether an error is returned.
RECURSIVE insertToLeaf(_, _, _)
insertToLeaf(st, cur, newNode) ==
    LET c == st.heap[cur] IN
    IF c.leftChild = Nil /\ c.rightChild = Nil
    THEN \* a leaf: split it under a new intermediate placeholder
        LET iname == IntermediateName(c.name, st.heap[newNode].name)
            ip == NewPtr(st.heap)
            intermediateNode ==
                [name |-> iname, publicKey |-> "", leftCount |-> 1, rightCount |-> 1,
                 leftChild |-> cur, rightChild |-> newNode,
                 filePath |-> generateFilePath(iname),
                 nodeType |-> "intermediate", leafIndex |-> 0,
                 nodeIndex |-> st.nni,
                 lastModified |-> st.t, lastChecked |-> ZeroTime]
            st1 == [st EXCEPT !.heap = ip :> intermediateNode @@ @, !.nni = @ + 1]
            sv == saveToDisk(st1, ip)
        IN  IF sv.err THEN [st |-> sv.st, ptr |-> cur, err |-> TRUE]
            ELSE [st |-> sv.st, ptr |-> ip, err |-> FALSE]
    ELSE \* not a leaf: go to the subtree with fewer leaves
        LET leftLeafCount == countLeaves(st.heap, c.leftChild)
            rightLeafCount == countLeaves(st.heap, c.rightChild)
        IN  IF leftLeafCount <= rightLeafCount
            THEN IF c.leftChild = Nil
                 THEN LET st1 == [st EXCEPT !.heap[cur].leftChild = newNode,
                                            !.heap[cur].leftCount = 1]
                          sv == saveToDisk(st1, cur)
                      IN  [st |-> sv.st, ptr |-> cur, err |-> sv.err]
                 ELSE LET r == insertToLeaf(st, c.leftChild, newNode)
                      IN  IF r.err THEN [st |-> r.st, ptr |-> cur, err |-> TRUE]
                          ELSE LET st1 == [r.st EXCEPT !.heap[cur].leftChild = r.ptr,
                                                       !.heap[cur].leftCount = @ + 1]
                                   sv == saveToDisk(st1, cur)
                               IN  [st |-> sv.st, ptr |-> cur, err |-> sv.err]
            ELSE IF c.rightChild = Nil
                 THEN LET st1 == [st EXCEPT !.heap[cur].rightChild = newNode,
                                            !.heap[cur].rightCount = 1]
                          sv == saveToDisk(st1, cur)
                      IN  [st |-> sv.st, ptr |-> cur, err |-> sv.err]
                 ELSE LET r == insertToLeaf(st, c.rightChild, newNode)
                      IN  IF r.err THEN [st |-> r.st, ptr |-> cur, err |-> TRUE]
                          ELSE LET st1 == [r.st EXCEPT !.heap[cur].rightChild = r.ptr,
                                                       !.heap[cur].rightCount = @ + 1]
                                   sv == saveToDisk(st1, cur)
                               IN  [st |-> sv.st, ptr |-> cur, err |-> sv.err]

\* the garbage collector: Elements no longer reachable from the head are gone
Collect(h, hd) == [n \in Subtree(h, hd) |-> h[n]]

\* an Insert in the manner of a search tree: the new Element is hung below an
\* existing node, no intermediate is created
M_TreeInsertAsChild(h, hd, nni, d, name, value, t1, t2, w) ==
    LET np == NewPtr(h)
        newElement ==
            [name |-> name, publicKey |-> value, leftCount |-> 0, rightCount |-> 0,
             leftChild |-> Nil, rightChild |-> Nil,
             filePath |-> generateFilePath(name),
             nodeType |-> "leaf", leafIndex |-> getNextLeafIndex(h, hd),
             nodeIndex |-> nni,
             lastModified |-> t1, lastChecked |-> ZeroTime]
        h1 == np :> newElement @@ h
        at == IF hd = Nil THEN Nil
              ELSE Min({n \in Subtree(h, hd) : h[n].leftChild = Nil})
        h2 == IF hd = Nil THEN h1 ELSE [h1 EXCEPT ![at].leftChild = np]
        nh == IF hd = Nil THEN np ELSE hd
        sv == saveToDisk([heap |-> h2, disk |-> d, nni |-> nni + 1, w |-> w, t |-> t2], np)
    IN  [heap |-> Collect(reassignNodeIndices(h2, nh), nh), head |-> nh,
         nni |-> reassignNext(h2, nh, nni), disk |-> sv.st.disk, err |-> FALSE]

\* an Insert that creates the leaf without the payload it was given
M_TreeInsertDropsValue(h, hd, nni, d, name, value, t1, t2, w) ==
    LET np == NewPtr(h)
        newElement ==
            [name |-> name, publicKey |-> "", leftCount |-> 0, rightCount |-> 0,
             leftChild |-> Nil, rightChild |-> Nil,
             filePath |-> generateFilePath(name),
             nodeType |-> "leaf", leafIndex |-> getNextLeafIndex(h, hd),
             nodeIndex |-> nni,
             lastModified |-> t1, lastChecked |-> ZeroTime]
        st0 == [heap |-> np :> newElement @@ h, disk |-> d, nni |-> nni + 1, w |-> w, t |-> t2]
        sv == saveToDisk(st0, np)
    IN  IF sv.err
        THEN [heap |-> Collect(sv.st.heap, hd), head |-> hd, nni |-> sv.st.nni,
              disk |-> sv.st.disk, err |-> TRUE]
        ELSE IF hd = Nil
        THEN [heap |-> Collect([sv.st.heap EXCEPT ![np].nodeIndex = 0], np), head |-> np,
              nni |-> 1, disk |-> sv.st.disk, err |-> FALSE]
        ELSE LET r == insertToLeaf(sv.st, hd, np)
             IN  IF r.err
                 THEN [heap |-> Collect(r.st.heap, r.ptr), head |-> r.ptr, nni |-> r.st.nni,
                       disk |-> r.st.disk, err |-> TRUE]
                 ELSE [heap |-> Collect(reassignNodeIndices(r.st.heap, r.ptr), r.ptr),
                       head |-> r.ptr,
                       nni |-> reassignNext(r.st.heap, r.ptr, r.st.nni),
                       disk |-> r.st.disk, err |-> FALSE]

\* Tree.Insert(name, value) on tree [heap, head, nni, disk], the clock reading
\* t1 at the new leaf's creation and t2 at the intermediate's, and the write
\* that fails (w, 0 for none).  Returns the tree and the error returned.
TreeInsert(h, hd, nni, d, name, value, t1, t2, w) ==
    LET np == NewPtr(h)
        newElement ==
            [name |-> name, publicKey |-> value, leftCount |-> 0, rightCount |-> 0,
             leftChild |-> Nil, rightChild |-> Nil,
             filePath |-> generateFilePath(name),
             nodeType |-> "leaf", leafIndex |-> getNextLeafIndex(h, hd),
             nodeIndex |-> nni,
             lastModified |-> t1, lastChecked |-> ZeroTime]
        st0 == [heap |-> np :> newElement @@ h, disk |-> d, nni |-> nni + 1, w |-> w, t |-> t2]
        sv == saveToDisk(st0, np)
    IN  IF sv.err
        THEN [heap |-> Collect(sv.st.heap, hd), head |-> hd, nni |-> sv.st.nni,
              disk |-> sv.st.disk, err |-> TRUE, w |-> sv.st.w]
        ELSE IF hd = Nil
        THEN [heap |-> Collect([sv.st.heap EXCEPT ![np].nodeIndex = 0], np), head |-> np,
              nni |-> 1, disk |-> sv.st.disk, err |-> FALSE, w |-> sv.st.w]
        ELSE LET r == insertToLeaf(sv.st, hd, np)
             IN  IF r.err
                 THEN [heap |-> Collect(r.st.heap, r.ptr), head |-> r.ptr, nni |-> r.st.nni,
                       disk |-> r.st.disk, err |-> TRUE, w |-> r.st.w]
                 ELSE [heap |-> Collect(reassignNodeIndices(r.st.heap, r.ptr), r.ptr),
                       head |-> r.ptr,
                       nni |-> reassignNext(r.st.heap, r.ptr, r.st.nni),
                       disk |-> r.st.disk, err |-> FALSE, w |-> r.st.w]

\* ------------------------------------------------------------------- Delete

\* a search for the rightmost node that never leaves the promoted child
M_RightmostIsLeft(h, n) == n

\* the loop "for current.rightChild != nil { current = current.rightChild }"
RECURSIVE Rightmost(_, _)
Rightmost(h, n) == IF h[n].rightChild = Nil THEN n ELSE Rightmost(h, h[n].rightChild)

\* a removeFound that hangs the right subtree under the left one and then
\* returns the node found instead of its left child
M_removeFoundKeepsNode(st, node) ==
    LET c == st.heap[node]
        st0 == IF c.filePath # ""
               THEN [st EXCEPT !.disk = osRemove(@, c.filePath, st.rm.found)]
               ELSE st
    IN  IF c.leftChild = Nil /\ c.rightChild = Nil
            THEN [st |-> st0, ptr |-> Nil, found |-> TRUE]
        ELSE IF c.leftChild = Nil
            THEN [st |-> st0, ptr |-> c.rightChild, found |-> TRUE]
        ELSE IF c.rightChild = Nil
            THEN [st |-> st0, ptr |-> c.leftChild, found |-> TRUE]
        ELSE LET left == c.leftChild
                 current == Rightmost(st0.heap, left)
                 rc == st0.heap[c.rightChild]
                 st1 == [st0 EXCEPT !.heap[current].rightChild = c.rightChild,
                                    !.heap[current].rightCount =
                                        rc.leftCount + rc.rightCount + 1]
                 sv1 == saveToDisk(st1, current)
                 st2 == [sv1.st EXCEPT !.heap[left].rightCount =
                             @ + sv1.st.heap[current].rightCount]
                 sv2 == saveToDisk(st2, left)
             IN  [st |-> sv2.st, ptr |-> node, found |-> TRUE]

\* a removal that drops the only child along with the node
M_removeFoundDropsChild(st, node) ==
    LET c == st.heap[node]
        st0 == IF c.filePath # ""
               THEN [st EXCEPT !.disk = osRemove(@, c.filePath, st.rm.found)]
               ELSE st
    IN  IF c.leftChild = Nil \/ c.rightChild = Nil
            THEN [st |-> st0, ptr |-> Nil, found |-> TRUE]
        ELSE LET left == c.leftChild
                 current == Rightmost(st0.heap, left)
                 rc == st0.heap[c.rightChild]
                 st1 == [st0 EXCEPT !.heap[current].rightChild = c.rightChild,
                                    !.heap[current].rightCount =
                                        rc.leftCount + rc.rightCount + 1]
                 sv1 == saveToDisk(st1, current)
                 st2 == [sv1.st EXCEPT !.heap[left].rightCount =
                             @ + sv1.st.heap[current].rightCount]
                 sv2 == saveToDisk(st2, left)
             IN  [st |-> sv2.st, ptr |-> left, found |-> TRUE]

\* deleteNode on the node that carries the target name: the file is removed
\* and the node replaced by nothing, by its only child, or by its left child
\* with the right subtree hung under the left subtree's rightmost node.
\* st = [heap, disk, nni, w, rm]: rm.found says whether this os.Remove succeeds.
removeFound(st, node) ==
    LET c == st.heap[node]
        st0 == IF c.filePath # ""
               THEN [st EXCEPT !.disk = osRemove(@, c.filePath, st.rm.found)]
               ELSE st
    IN  IF c.leftChild = Nil /\ c.rightChild = Nil
            THEN [st |-> st0, ptr |-> Nil, found |-> TRUE]
        ELSE IF c.leftChild = Nil
            THEN [st |-> st0, ptr |-> c.rightChild, found |-> TRUE]
        ELSE IF c.rightChild = Nil
            THEN [st |-> st0, ptr |-> c.leftChild, found |-> TRUE]
        ELSE LET left == c.leftChild
                 current == Rightmost(st0.heap, left)
                 rc == st0.heap[c.rightChild]
                 st1 == [st0 EXCEPT !.heap[current].rightChild = c.rightChild,
                                    !.heap[current].rightCount =
                                        rc.leftCount + rc.rightCount + 1]
                 sv1 == saveToDisk(st1, current)
                 st2 == [sv1.st EXCEPT !.heap[left].rightCount =
                             @ + sv1.st.heap[current].rightCount]
                 sv2 == saveToDisk(st2, left)
             IN  [st |-> sv2.st, ptr |-> left, found |-> TRUE]

\* the deleteNode closure of Tree.Delete on the subtree at node.  Returns the
\* state, the pointer returned (the subtree's new root) and found.  Its error
\* result is always nil: the results of the saveToDisk calls are dropped.
RECURSIVE deleteNode(_, _, _)
deleteNode(st, node, targetName) ==
    IF node = Nil THEN [st |-> st, ptr |-> Nil, found |-> FALSE]
    ELSE LET c == st.heap[node] IN
    IF c.name = targetName THEN removeFound(st, node)
    ELSE LET l == IF c.leftChild # Nil
                  THEN deleteNode(st, c.leftChild, targetName)
                  ELSE [st |-> st, ptr |-> Nil, found |-> FALSE]
         IN  IF l.found
             THEN LET st1 == [l.st EXCEPT !.heap[node].leftChild = l.ptr,
                                          !.heap[node].leftCount = @ - 1]
                  IN  [st |-> saveToDisk(st1, node).st, ptr |-> node, found |-> TRUE]
             ELSE LET r == IF c.rightChild # Nil
                           THEN deleteNode(l.st, c.rightChild, targetName)
                           ELSE [st |-> l.st, ptr |-> Nil, found |-> FALSE]
                  IN  IF r.found
                      THEN LET st1 == [r.st EXCEPT !.heap[node].rightChild = r.ptr,
                                                   !.heap[node].rightCount = @ - 1]
                           IN  [st |-> saveToDisk(st1, node).st, ptr |-> node, found |-> TRUE]
                      ELSE [st |-> r.st, ptr |-> node, found |-> FALSE]

\* the body of updateNames for one node, after its children were handled
updateName(st, node) ==
    LET c == st.heap[node]
        leftLeafNames == collectLeafNames(st.heap, c.leftChild)
        rightLeafNames == collectLeafNames(st.heap, c.rightChild)
    IN  IF c.nodeType = "intermediate" /\ Len(leftLeafNames) > 0 /\ Len(rightLeafNames) > 0
        THEN LET oldFilePath == c.filePath
                 newName == IntermediateName(leftLeafNames[1], rightLeafNames[1])
                 st1 == [st EXCEPT !.heap[node].name = newName,
                                   !.heap[node].filePath = generateFilePath(newName)]
                 st2 == IF oldFilePath # ""
                        THEN [st1 EXCEPT !.disk = osRemove(@, oldFilePath, st.rm.rename)]
                        ELSE st1
             IN  saveToDisk(st2, node).st
        ELSE st

RECURSIVE updateNames(_, _)
updateNames(st, todo) ==
    IF todo = <<>> THEN st ELSE updateNames(updateName(st, Head(todo)), Tail(todo))

\* Tree.renameIntermediateNodes
renameIntermediateNodes(st, hd) == updateNames(st, PostOrder(st.heap, hd))

\* a Delete that renames and re-indexes before it looks at found
M_TreeDeleteTidiesFirst(h, hd, nni, d, name, w, rm) ==
    IF hd = Nil THEN [heap |-> h, head |-> hd, nni |-> nni, disk |-> d, err |-> TRUE]
    ELSE LET st0 == [heap |-> h, disk |-> d, nni |-> nni, w |-> w, rm |-> rm]
             r == deleteNode(st0, hd, name)
             nh == IF r.found THEN r.ptr ELSE hd
             st1 == renameIntermediateNodes(r.st, nh)
         IN  [heap |-> Collect(reassignNodeIndices(st1.heap, nh), nh),
              head |-> nh,
              nni |-> reassignNext(st1.heap, nh, st1.nni),
              disk |-> st1.disk, err |-> ~r.found]

\* Tree.Delete(name) on tree [heap, head, nni, disk]; w is the write that
\* fails (0 for none), rm whether os.Remove succeeds: rm.found for the file
\* of the node deleted, rm.rename for the old files of the nodes renamed.
\* Returns the tree and the error returned.
TreeDelete(h, hd, nni, d, name, w, rm) ==
    IF hd = Nil
    THEN [heap |-> h, head |-> hd, nni |-> nni, disk |-> d, err |-> TRUE, w |-> w]
    ELSE LET st0 == [heap |-> h, disk |-> d, nni |-> nni, w |-> w, rm |-> rm]
             r == deleteNode(st0, hd, name)
         IN  IF ~r.found
             THEN [heap |-> r.st.heap, head |-> hd, nni |-> r.st.nni,
                   disk |-> r.st.disk, err |-> TRUE, w |-> r.st.w]
             ELSE LET st1 == renameIntermediateNodes(r.st, r.ptr)
                  IN  [heap |-> Collect(reassignNodeIndices(st1.heap, r.ptr), r.ptr),
                       head |-> r.ptr,
                       nni |-> reassignNext(st1.heap, r.ptr, st1.nni),
                       disk |-> st1.disk, err |-> FALSE, w |-> st1.w]

\* ------------------------------------------------------------------ the calls

\* the threads that call into one tree, and a thread that is in no call
Threads == {1, 2}
Idle == [op |-> "idle"]


Live == Subtree(heap, head)
LiveNames == {heap[n].name : n \in Live}
Size(h, hd) == Cardinality(Subtree(h, hd))

\* the history since the last MarkAllAsChecked: valid while nothing but payload
\* updates followed it, S the nodes updated, late whether every MarkAsModified
\* read the clock strictly after the lastChecked of its node
NoTrack == [valid |-> FALSE, S |-> {}, late |-> TRUE]
NoScenario == [phase |-> "off", order |-> <<>>, k |-> 0]

\* the scenario history after a successful Insert / Delete of name
ScnInsert(name) ==
    IF scn.phase = "fill" THEN [scn EXCEPT !.order = Append(@, name)] ELSE NoScenario
ScnDelete(name) ==
    IF scn.phase \in {"fill", "prune"} /\ 2 * scn.k + 1 <= Len(scn.order)
       /\ name = scn.order[2 * scn.k + 1]
    THEN [scn EXCEPT !.phase = "prune", !.k = @ + 1]
    ELSE NoScenario

\* the nodes of one kind below hd
OfKindIn(h, hd, kind) == {n \in Subtree(h, hd) : h[n].nodeType = kind}

\* t.Insert(name, value), every write succeeding; t2 is the clock reading at
\* the creation of the intermediate
Insert(name, value, t2) ==
    /\ name \notin LiveNames
    /\ LET r == TreeInsert(heap, head, nextNodeIndex, disk, name, value, now, t2, 0)
       IN  /\ heap' = r.heap
           /\ head' = r.head
           /\ nextNodeIndex' = r.nni
           /\ disk' = r.disk
           /\ ret' = [op |-> "Insert", arg |-> name, ok |-> ~r.err, node |-> Nil]
           /\ given' = IF r.err THEN given ELSE Put(given, name, value)
           /\ scn' = IF r.err THEN NoScenario ELSE ScnInsert(name)
    /\ now' = t2
    /\ trk' = NoTrack
    /\ steps' = steps + 1
    /\ issued' = IF ret'.ok THEN Max({issued, getNextLeafIndex(heap, head)}) ELSE issued
    /\ UNCHANGED <<membersOnly, proc>>

\* t.Insert(name, value) whether or not the name is in the tree already;
\* dup tells whether a leaf of that name was there
InsertAny(name, value) ==
    /\ LET r == TreeInsert(heap, head, nextNodeIndex, disk, name, value, now, now, 0)
       IN  /\ heap' = r.heap
           /\ head' = r.head
           /\ nextNodeIndex' = r.nni
           /\ disk' = r.disk
           /\ ret' = [op |-> "Insert", arg |-> name, ok |-> ~r.err, node |-> Nil,
                      dup |-> \E n \in OfKindIn(heap, head, "leaf") : heap[n].name = name]
           /\ given' = IF r.err THEN given ELSE Put(given, name, value)
    /\ scn' = NoScenario
    /\ trk' = NoTrack
    /\ steps' = steps + 1
    /\ issued' = IF ret'.ok THEN Max({issued, getNextLeafIndex(heap, head)}) ELSE issued
    /\ UNCHANGED <<now, membersOnly, proc>>

\* t.Delete(name), every write and removal succeeding
Delete(name) ==
    /\ LET r == TreeDelete(heap, head, nextNodeIndex, disk, name, 0, AllRemoved)
       IN  /\ heap' = r.heap
           /\ head' = r.head
           /\ nextNodeIndex' = r.nni
           /\ disk' = r.disk
           /\ ret' = [op |-> "Delete", arg |-> name, ok |-> ~r.err, node |-> Nil]
           /\ scn' = IF r.err THEN scn ELSE ScnDelete(name)
           /\ trk' = IF r.err THEN trk ELSE NoTrack
           /\ given' = IF ~r.err /\ name \in DOMAIN given THEN Drop(given, name) ELSE given
    /\ steps' = steps + 1
    /\ membersOnly' = (membersOnly /\ name \in MemberNames \cup QueryNames)
    /\ UNCHANGED <<now, issued, proc>>

\* t.Find(name)
FindCall(name) ==
    /\ ret' = [op |-> "Find", arg |-> name, ok |-> Find(heap, head, name) # Nil,
               node |-> Find(heap, head, name)]
    /\ UNCHANGED <<heap, head, nextNodeIndex, disk, now, given, scn, trk, steps, membersOnly,
                   issued, proc>>

\* t.GetPath(name)
GetPathCall(name) ==
    /\ LET g == GetPath(heap, head, name)
       IN  ret' = [op |-> "GetPath", arg |-> name, ok |-> ~g.err, node |-> Nil,
                  path |-> g.path]
    /\ UNCHANGED <<heap, head, nextNodeIndex, disk, now, given, scn, trk, steps,
                   membersOnly, issued, proc>>

\* t.GetLeaves()
GetLeavesCall ==
    /\ ret' = [op |-> "GetLeaves", arg |-> "", ok |-> TRUE, node |-> Nil,
               leaves |-> GetLeaves(heap, head)]
    /\ UNCHANGED <<heap, head, nextNodeIndex, disk, now, given, scn, trk, steps,
                   membersOnly, issued, proc>>

\* t.GetTreeStructure()
GetTreeStructureCall ==
    /\ ret' = [op |-> "GetTreeStructure", arg |-> "", ok |-> TRUE, node |-> Nil,
               structure |-> GetTreeStructure(heap, head)]
    /\ UNCHANGED <<heap, head, nextNodeIndex, disk, now, given, scn, trk, steps,
                   membersOnly, issued, proc>>

\* e.SaveToDisk() on a node of the tree
SaveToDisk(e) ==
    /\ LET sv == saveToDisk([heap |-> heap, disk |-> disk, nni |-> nextNodeIndex,
                             w |-> 0], e)
       IN  /\ disk' = sv.st.disk
           /\ ret' = [op |-> "SaveToDisk", arg |-> heap[e].name, ok |-> ~sv.err,
                      node |-> e]
    /\ scn' = NoScenario
    /\ UNCHANGED <<heap, head, nextNodeIndex, now, given, trk, steps, membersOnly, issued, proc>>

\* e.SetValue(value) on a node of the tree
SetValueCall(e, value) ==
    /\ heap' = SetValue(heap, e, value)
    /\ ret' = [op |-> "SetValue", arg |-> heap[e].name, ok |-> TRUE, node |-> e]
    /\ given' = IF heap[e].name \in DOMAIN given THEN Put(given, heap[e].name, value)
                 ELSE given
    /\ scn' = NoScenario
    /\ trk' = NoTrack
    /\ steps' = steps + 1
    /\ UNCHANGED <<head, nextNodeIndex, disk, now, membersOnly, issued, proc>>

\* e.MarkAsModified() on a node of the tree
MarkAsModifiedCall(e) ==
    /\ heap' = MarkAsModified(heap, e, now)
    /\ ret' = [op |-> "MarkAsModified", arg |-> heap[e].name, ok |-> TRUE, node |-> e]
    /\ scn' = NoScenario
    /\ trk' = NoTrack
    /\ steps' = steps + 1
    /\ UNCHANGED <<head, nextNodeIndex, disk, now, given, membersOnly, issued, proc>>

\* e.MarkAsChecked() on a node of the tree
MarkAsCheckedCall(e) ==
    /\ heap' = MarkAsChecked(heap, e, now)
    /\ ret' = [op |-> "MarkAsChecked", arg |-> heap[e].name, ok |-> TRUE, node |-> e]
    /\ scn' = NoScenario
    /\ trk' = NoTrack
    /\ steps' = steps + 1
    /\ UNCHANGED <<head, nextNodeIndex, disk, now, given, membersOnly, issued, proc>>

\* t.GetModifiedNodes(since)
GetModifiedNodesCall(since) ==
    /\ ret' = [op |-> "GetModifiedNodes", arg |-> "", ok |-> TRUE, node |-> Nil,
               since |-> since, nodes |-> GetModifiedNodes(heap, head, since)]
    /\ UNCHANGED <<heap, head, nextNodeIndex, disk, now, given, scn, trk, steps,
                   membersOnly, issued, proc>>

\* t.GetNodeChangesSince(since)
GetNodeChangesSinceCall(since) ==
    /\ ret' = [op |-> "GetNodeChangesSince", arg |-> "", ok |-> TRUE, node |-> Nil,
               since |-> since, changes |-> GetNodeChangesSince(heap, head, since)]
    /\ UNCHANGED <<heap, head, nextNodeIndex, disk, now, given, scn, trk, steps,
                   membersOnly, issued, proc>>

\* time passes between two calls
Tick ==
    /\ now < MaxTime
    /\ now' = now + 1
    /\ UNCHANGED <<heap, head, nextNodeIndex, disk, ret, given, scn, trk, steps, membersOnly,
                   issued, proc>>

\* t.MarkAllAsChecked(): the first k nodes of the traversal read the clock as
\* now, the rest one reading later
MarkAllAsChecked(k) ==
    LET todo == IF head = Nil THEN <<>> ELSE PreOrder(heap, head)
        at == [i \in 1..Len(todo) |-> IF i <= k THEN now ELSE now + 1]
        st == markChecked([heap |-> heap, disk |-> disk, nni |-> nextNodeIndex,
                           w |-> 0], todo, at)
    IN  /\ k <= Len(todo)
        /\ k < Len(todo) => now < MaxTime
        /\ heap' = st.heap
        /\ disk' = st.disk
        /\ now' = IF k < Len(todo) THEN now + 1 ELSE now
        /\ ret' = [op |-> "MarkAllAsChecked", arg |-> "", ok |-> TRUE, node |-> Nil]
        /\ trk' = [valid |-> TRUE, S |-> {}, late |-> TRUE]
        /\ scn' = NoScenario
        /\ UNCHANGED <<head, nextNodeIndex, given, steps, membersOnly, issued, proc>>

\* updateUserKey(tree, name, value) of the usage guide: Find, SetValue,
\* MarkAsModified, SaveToDisk
updateUserKey(name, value) ==
    LET e == Find(heap, head, name) IN
    IF e = Nil
    THEN /\ ret' = [op |-> "updateUserKey", arg |-> name, ok |-> FALSE, node |-> Nil]
         /\ UNCHANGED <<heap, head, nextNodeIndex, disk, now, given, scn, trk, steps, membersOnly,
                        issued, proc>>
    ELSE LET h2 == MarkAsModified(SetValue(heap, e, value), e, now)
             sv == saveToDisk([heap |-> h2, disk |-> disk, nni |-> nextNodeIndex,
                               w |-> 0], e)
         IN  /\ heap' = h2
             /\ disk' = sv.st.disk
             /\ ret' = [op |-> "updateUserKey", arg |-> name, ok |-> ~sv.err,
                        node |-> e]
             /\ given' = IF name \in DOMAIN given THEN Put(given, name, value)
                          ELSE given
             /\ trk' = [trk EXCEPT !.S = @ \cup {e},
                                   !.late = @ /\ now > heap[e].lastChecked]
             /\ scn' = NoScenario
             /\ UNCHANGED <<head, nextNodeIndex, now, steps, membersOnly, issued, proc>>

\* a SetIntermediateNodeKey that does not look at the kind of the node
M_SetKeyOfAnyKind(name, key) ==
    LET e == Find(heap, head, name)
        fail == /\ ret' = [op |-> "SetIntermediateNodeKey", arg |-> name, ok |-> FALSE,
                           node |-> e, key |-> key, at |-> now]
                /\ UNCHANGED <<heap, head, nextNodeIndex, disk, now, given, scn, trk,
                               steps, membersOnly, issued, proc>>
    IN  IF e = Nil THEN fail
        ELSE IF FALSE THEN fail
        ELSE LET h2 == MarkAsModified([heap EXCEPT ![e].publicKey = key], e, now)
                 sv == saveToDisk([heap |-> h2, disk |-> disk, nni |-> nextNodeIndex,
                                   w |-> 0], e)
             IN  /\ heap' = h2
                 /\ disk' = sv.st.disk
                 /\ ret' = [op |-> "SetIntermediateNodeKey", arg |-> name,
                            ok |-> ~sv.err, node |-> e, key |-> key, at |-> now]
                 /\ given' = IF name \in DOMAIN given THEN Put(given, name, key)
                              ELSE given
                 /\ trk' = [trk EXCEPT !.S = @ \cup {e},
                                       !.late = @ /\ now > heap[e].lastChecked]
                 /\ scn' = NoScenario
                 /\ UNCHANGED <<head, nextNodeIndex, now, steps, membersOnly, issued, proc>>

\* t.SetIntermediateNodeKey(name, key)
SetIntermediateNodeKey(name, key) ==
    LET e == Find(heap, head, name)
        fail == /\ ret' = [op |-> "SetIntermediateNodeKey", arg |-> name, ok |-> FALSE,
                           node |-> e, key |-> key, at |-> now]
                /\ UNCHANGED <<heap, head, nextNodeIndex, disk, now, given, scn, trk,
                               steps, membersOnly, issued, proc>>
    IN  IF e = Nil THEN fail
        ELSE IF heap[e].nodeType # "intermediate" THEN fail
        ELSE LET h2 == MarkAsModified([heap EXCEPT ![e].publicKey = key], e, now)
                 sv == saveToDisk([heap |-> h2, disk |-> disk, nni |-> nextNodeIndex,
                                   w |-> 0], e)
             IN  /\ heap' = h2
                 /\ disk' = sv.st.disk
                 /\ ret' = [op |-> "SetIntermediateNodeKey", arg |-> name,
                            ok |-> ~sv.err, node |-> e, key |-> key, at |-> now]
                 /\ given' = IF name \in DOMAIN given THEN Put(given, name, key)
                              ELSE given
                 /\ trk' = [trk EXCEPT !.S = @ \cup {e},
                                       !.late = @ /\ now > heap[e].lastChecked]
                 /\ scn' = NoScenario
                 /\ UNCHANGED <<head, nextNodeIndex, now, steps, membersOnly, issued, proc>>

\* t.Insert(name, value) when the w-th record write of the call fails (w = 0:
\* none does); wfail tells whether the call got as far as that write
InsertIO(name, value, w) ==
    /\ name \notin LiveNames
    /\ LET r == TreeInsert(heap, head, nextNodeIndex, disk, name, value, now, now, w)
       IN  /\ heap' = r.heap
           /\ head' = r.head
           /\ nextNodeIndex' = r.nni
           /\ disk' = r.disk
           /\ ret' = [op |-> "Insert", arg |-> name, ok |-> ~r.err, node |-> Nil,
                      wfail |-> (w > 0 /\ r.w = 0)]
           /\ given' = IF Find(r.heap, r.head, name) # Nil THEN Put(given, name, value)
                        ELSE given
    /\ scn' = NoScenario
    /\ trk' = NoTrack
    /\ steps' = steps + 1
    /\ issued' = IF Find(heap', head', name) # Nil
                 THEN Max({issued, getNextLeafIndex(heap, head)}) ELSE issued
    /\ UNCHANGED <<now, membersOnly, proc>>

\* t.Delete(name) when the w-th record write of the call fails
DeleteIO(name, w) ==
    /\ LET r == TreeDelete(heap, head, nextNodeIndex, disk, name, w, AllRemoved)
       IN  /\ heap' = r.heap
           /\ head' = r.head
           /\ nextNodeIndex' = r.nni
           /\ disk' = r.disk
           /\ ret' = [op |-> "Delete", arg |-> name, ok |-> ~r.err, node |-> Nil,
                      wfail |-> (w > 0 /\ r.w = 0)]
           /\ given' = IF ~r.err /\ name \in DOMAIN given THEN Drop(given, name)
                        ELSE given
    /\ scn' = NoScenario
    /\ trk' = NoTrack
    /\ steps' = steps + 1
    /\ membersOnly' = (membersOnly /\ name \in MemberNames \cup QueryNames)
    /\ UNCHANGED <<now, issued, proc>>

\* t.Delete(name) when os.Remove fails as rm says, every write succeeding
DeleteRm(name, rm) ==
    /\ LET r == TreeDelete(heap, head, nextNodeIndex, disk, name, 0, rm)
       IN  /\ heap' = r.heap
           /\ head' = r.head
           /\ nextNodeIndex' = r.nni
           /\ disk' = r.disk
           /\ ret' = [op |-> "Delete", arg |-> name, ok |-> ~r.err, node |-> Nil,
                      rm |-> rm]
           /\ given' = IF ~r.err /\ name \in DOMAIN given THEN Drop(given, name)
                        ELSE given
    /\ scn' = NoScenario
    /\ trk' = NoTrack
    /\ steps' = steps + 1
    /\ membersOnly' = (membersOnly /\ name \in MemberNames \cup QueryNames)
    /\ UNCHANGED <<now, issued, proc>>

\* e.SetNodeIndex(index) on the head
SetNodeIndexCall(index) ==
    /\ head # Nil
    /\ heap' = SetNodeIndex(heap, head, index)
    /\ ret' = [op |-> "SetNodeIndex", arg |-> "", ok |-> TRUE, node |-> head,
               val |-> index]
    /\ UNCHANGED <<head, nextNodeIndex, disk, now, given, scn, trk, steps, membersOnly,
                   issued, proc>>

\* what a call of an index method on the head leaves behind
IndexCall(op, val) ==
    /\ head # Nil
    /\ ret' = [op |-> op, arg |-> "", ok |-> TRUE, node |-> head, val |-> val]
    /\ UNCHANGED <<heap, head, nextNodeIndex, disk, now, given, scn, trk, steps,
                   membersOnly, issued, proc>>

\* e.ParentIndex(), e.LeftChildIndex(), ... on the head
ParentIndexCall == IndexCall("ParentIndex", ParentIndex(heap[head].nodeIndex))
LeftChildIndexCall == IndexCall("LeftChildIndex", LeftChildIndex(heap[head].nodeIndex))
RightChildIndexCall == IndexCall("RightChildIndex", RightChildIndex(heap[head].nodeIndex))
SiblingIndexCall == IndexCall("SiblingIndex", SiblingIndex(heap[head].nodeIndex))
IsLeftChildCall == IndexCall("IsLeftChild", IsLeftChild(heap[head].nodeIndex))
IsRightChildCall == IndexCall("IsRightChild", IsRightChild(heap[head].nodeIndex))

\* NewTree(rootPath)
Init ==
    /\ heap = <<>>
    /\ head = Nil
    /\ nextNodeIndex = 0
    /\ disk = <<>>
    /\ now = 1
    /\ ret = [op |-> "NewTree", arg |-> "", ok |-> TRUE, node |-> Nil]
    /\ given = <<>>
    /\ scn = [phase |-> "fill", order |-> <<>>, k |-> 0]
    /\ trk = NoTrack
    /\ steps = 0
    /\ membersOnly = TRUE
    /\ issued = -1
    /\ proc = [t \in Threads |-> Idle]

\* ------------------------------------------- queries run by several threads

\* the read-only methods of Tree; those that stop at the first hit, and the
\* two that walk breadth-first through a queue (the rest recurse, pre-order)
QueryOps == {"Find", "GetPath", "GetNodeByIndex", "GetTreeStructure", "GetLeaves",
             "GetModifiedNodes", "GetNodesNeedingUpdate", "GetNodeChangesSince"}
SearchOps == {"Find", "GetPath", "GetNodeByIndex"}
QueueOps == {"Find", "GetNodeByIndex"}

\* the arguments the threads pass to op
QueryArgs(op) ==
    CASE op \in {"Find", "GetPath"} -> TrackNames
      [] op = "GetNodeByIndex" -> 0..1
      [] op \in {"GetModifiedNodes", "GetNodeChangesSince"} -> ZeroTime..1
      [] OTHER -> {""}

\* a query that marks the nodes it visits as checked
M_visitMarksChecked(h, node) == [h EXCEPT ![node].lastChecked = h[node].lastModified]
\* what a query writes to the tree when it visits node: nothing
visit(h, node) == h

\* whether the search op(arg) stops at node
hit(h, op, arg, node) ==
    CASE op \in {"Find", "GetPath"} -> h[node].name = arg
      [] op = "GetNodeByIndex" -> h[node].nodeIndex = arg
      [] OTHER -> FALSE

\* the result variable of the collecting query op(arg) after the visit of node
collect(h, op, arg, acc, node) ==
    CASE op = "GetLeaves" -> IF IsLeaf(h, node) THEN Append(acc, node) ELSE acc
      [] op = "GetModifiedNodes" ->
            IF WasModifiedSince(h, node, arg) THEN Append(acc, node) ELSE acc
      [] op = "GetNodesNeedingUpdate" ->
            IF NeedsUpdate(h, node) THEN Append(acc, node) ELSE acc
      [] op = "GetTreeStructure" -> Put(acc, h[node].name, NodeInfo(h, node))
      [] op = "GetNodeChangesSince" ->
            IF WasModifiedSince(h, node, arg)
            THEN Put(acc, h[node].name, h[node].lastModified) ELSE acc
      [] OTHER -> acc

\* the nodes the walk of op goes on to from the node at the end of path
\* (GetLeaves does not look below a childless node, which has nothing below)
below(h, path) ==
    LET node == path[Len(path)]
    IN  (IF h[node].leftChild # Nil THEN <<Append(path, h[node].leftChild)>> ELSE <<>>)
        \o (IF h[node].rightChild # Nil THEN <<Append(path, h[node].rightChild)>> ELSE <<>>)

\* thread t enters the query op(arg): todo holds the paths to the nodes still
\* to visit, acc the result built so far
QueryStart(t, op, arg) ==
    /\ proc[t] = Idle
    /\ proc' = [proc EXCEPT ![t] = [op |-> op, arg |-> arg, acc |-> <<>>,
                                    todo |-> IF head = Nil THEN <<>> ELSE <<<<head>>>>]]
    /\ UNCHANGED <<heap, head, nextNodeIndex, disk, now, ret, given, scn, trk, steps,
                   membersOnly, issued>>

\* thread t visits the next node of its query, or finds none left and returns
QueryStep(t) ==
    /\ proc[t].op \in QueryOps
    /\ LET c == proc[t]
           returns(result) == [op |-> "done", call |-> c.op, arg |-> c.arg,
                               result |-> result]
       IN  IF c.todo = <<>>
           THEN /\ proc' = [proc EXCEPT ![t] =
                               returns(IF c.op \in QueueOps THEN Nil ELSE c.acc)]
                /\ heap' = heap
           ELSE LET path == Head(c.todo)
                    node == path[Len(path)]
                IN  /\ heap' = visit(heap, node)
                    /\ IF hit(heap, c.op, c.arg, node)
                       THEN proc' = [proc EXCEPT ![t] =
                                        returns(IF c.op = "GetPath" THEN path ELSE node)]
                       ELSE proc' = [proc EXCEPT ![t] =
                              [c EXCEPT !.acc = collect(heap, c.op, c.arg, @, node),
                                        !.todo = IF c.op \in QueueOps
                                                 THEN Tail(@) \o below(heap, path)
                                                 ELSE below(heap, path) \o Tail(@)]]
    /\ UNCHANGED <<head, nextNodeIndex, disk, now, ret, given, scn, trk, steps,
                   membersOnly, issued>>

\* the caller of thread t has taken the result
QueryReturn(t) ==
    /\ proc[t].op = "done"
    /\ proc' = [proc EXCEPT ![t] = Idle]
    /\ UNCHANGED <<heap, head, nextNodeIndex, disk, now, ret, given, scn, trk, steps,
                   membersOnly, issued>>

\* no thread is inside a call
AllIdle == \A t \in Threads : proc[t] = Idle

\* ------------------------------------------- Inserts run by several threads

\* the variable a **Element of insertToLeaf points at: &t.head is <<Nil, "head">>,
\* &current.leftChild is <<current, "left">>
HeadSlot == <<Nil, "head">>
deref(h, hd, slot) ==
    IF slot = HeadSlot THEN hd
    ELSE IF slot[2] = "left" THEN h[slot[1]].leftChild ELSE h[slot[1]].rightChild

\* the Elements a thread's locals point at, and those a collection spares
Held(p) ==
    IF p.op # "Insert" THEN {}
    ELSE ({p.new, p.im} \cup {p.stack[i].cur : i \in DOMAIN p.stack}
          \cup {p.stack[i].slot[1] : i \in DOMAIN p.stack}) \ {Nil}
Spared(h, hd, pr) ==
    Subtree(h, hd) \cup UNION {Subtree(h, n) : n \in UNION {Held(pr[t]) : t \in Threads}}

\* the record e.saveToDisk() leaves on the disk d, the write succeeding
saved(h, d, e) == saveToDisk([heap |-> h, disk |-> d, nni |-> 0, w |-> 0, t |-> 0], e).st.disk

\* thread t enters Insert(name, value): lines 577-591, the new Element
InsertStart(t, name, value) ==
    /\ proc[t] = Idle
    /\ name \notin LiveNames
    /\ \A u \in Threads : proc[u].op = "Insert" => proc[u].name # name
    /\ LET np == NewPtr(heap)
           newElement ==
               [name |-> name, publicKey |-> value, leftCount |-> 0, rightCount |-> 0,
                leftChild |-> Nil, rightChild |-> Nil,
                filePath |-> generateFilePath(name),
                nodeType |-> "leaf", leafIndex |-> getNextLeafIndex(heap, head),
                nodeIndex |-> nextNodeIndex,
                lastModified |-> now, lastChecked |-> ZeroTime]
       IN  /\ heap' = np :> newElement @@ heap
           /\ disk' = saved(heap', disk, np)
           /\ proc' = [proc EXCEPT ![t] =
                         [op |-> "Insert", pc |-> "head", name |-> name, value |-> value,
                          new |-> np, im |-> Nil, cnt |-> 0, stack |-> <<>>]]
    /\ nextNodeIndex' = nextNodeIndex + 1
    /\ steps' = steps + 1
    /\ UNCHANGED <<head, now, ret, given, scn, trk, membersOnly, issued>>

\* where a thread goes on when a call of insertToLeaf has returned to a
\* caller with the frames stack left: to the caller's count++, or to line 678
returned(stack) == IF stack = <<>> THEN "reindex" ELSE "incRead"

\* the next read or write of head, of a child link or of a count that thread
\* t makes in its Insert, with the statements around it
InsertStep(t) ==
    /\ proc[t].op = "Insert"
    /\ LET c == proc[t]
           top == c.stack[Len(c.stack)]
           rest == SubSeq(c.stack, 1, Len(c.stack) - 1)
           cur == top.cur
           goes(p) == proc' = [proc EXCEPT ![t] = p]
           keeps == UNCHANGED <<heap, head, nextNodeIndex, disk>>
       IN  CASE c.pc = "head" ->          \* line 593: if t.head == nil
                  /\ goes([c EXCEPT !.pc = IF head = Nil THEN "sethead" ELSE "enter",
                                    !.stack = IF head = Nil THEN <<>>
                                              ELSE <<[slot |-> HeadSlot, cur |-> Nil,
                                                      side |-> "none"]>>])
                  /\ keeps
             [] c.pc = "sethead" ->       \* lines 594-597
                  /\ head' = c.new
                  /\ heap' = SetNodeIndex(heap, c.new, 0)
                  /\ nextNodeIndex' = 1
                  /\ goes([c EXCEPT !.op = "inserted"])
                  /\ UNCHANGED disk
             [] c.pc = "enter" ->         \* line 605: current := *nodePtr
                  /\ goes([c EXCEPT !.pc = "look",
                                    !.stack[Len(c.stack)].cur = deref(heap, head, top.slot)])
                  /\ keeps
             [] c.pc = "look" ->          \* lines 608, 637-663: the child links of current
                  /\ IF heap[cur].leftChild = Nil /\ heap[cur].rightChild = Nil
                     THEN goes([c EXCEPT !.pc = "split"])
                     ELSE LET side == IF countLeaves(heap, heap[cur].leftChild)
                                            <= countLeaves(heap, heap[cur].rightChild)
                                      THEN "left" ELSE "right"
                              slot == <<cur, side>>
                          IN  IF deref(heap, head, slot) = Nil
                              THEN goes([c EXCEPT !.pc = "attach",
                                                  !.stack[Len(c.stack)].side = side])
                              ELSE goes([c EXCEPT !.pc = "enter",
                                           !.stack = Append([c.stack EXCEPT
                                                               ![Len(c.stack)].side = side],
                                                     [slot |-> slot, cur |-> Nil,
                                                      side |-> "none"])])
                  /\ keeps
             [] c.pc = "split" ->         \* lines 612-629: the intermediate placeholder
                  LET iname == IntermediateName(heap[cur].name, heap[c.new].name)
                      ip == NewPtr(heap)
                      intermediateNode ==
                          [name |-> iname, publicKey |-> "", leftCount |-> 1, rightCount |-> 1,
                           leftChild |-> cur, rightChild |-> c.new,
                           filePath |-> generateFilePath(iname),
                           nodeType |-> "intermediate", leafIndex |-> 0,
                           nodeIndex |-> nextNodeIndex,
                           lastModified |-> now, lastChecked |-> ZeroTime]
                  IN  /\ heap' = ip :> intermediateNode @@ heap
                      /\ nextNodeIndex' = nextNodeIndex + 1
                      /\ disk' = saved(heap', disk, ip)
                      /\ goes([c EXCEPT !.pc = "link", !.im = ip])
                      /\ UNCHANGED head
             [] c.pc = "link" ->          \* line 632: *nodePtr = intermediateNode
                  /\ IF top.slot = HeadSlot
                     THEN head' = c.im /\ heap' = heap
                     ELSE /\ head' = head
                          /\ heap' = IF top.slot[2] = "left"
                                     THEN [heap EXCEPT ![top.slot[1]].leftChild = c.im]
                                     ELSE [heap EXCEPT ![top.slot[1]].rightChild = c.im]
                  /\ goes([c EXCEPT !.pc = returned(rest), !.im = Nil, !.stack = rest])
                  /\ UNCHANGED <<nextNodeIndex, disk>>
             [] c.pc = "attach" ->        \* lines 643-644, 653-654: the empty slot
                  /\ heap' = IF top.side = "left"
                             THEN [heap EXCEPT ![cur].leftChild = c.new, ![cur].leftCount = 1]
                             ELSE [heap EXCEPT ![cur].rightChild = c.new, ![cur].rightCount = 1]
                  /\ goes([c EXCEPT !.pc = "save"])
                  /\ UNCHANGED <<head, nextNodeIndex, disk>>
             [] c.pc = "incRead" ->       \* lines 649, 659: count++ reads the count
                  /\ goes([c EXCEPT !.pc = "incWrite",
                                    !.cnt = IF top.side = "left" THEN heap[cur].leftCount
                                            ELSE heap[cur].rightCount])
                  /\ keeps
             [] c.pc = "incWrite" ->      \* and writes it back, one more
                  /\ heap' = IF top.side = "left"
                             THEN [heap EXCEPT ![cur].leftCount = c.cnt + 1]
                             ELSE [heap EXCEPT ![cur].rightCount = c.cnt + 1]
                  /\ goes([c EXCEPT !.pc = "save"])
                  /\ UNCHANGED <<head, nextNodeIndex, disk>>
             [] c.pc = "save" ->          \* line 669: return current.saveToDisk()
                  /\ disk' = saved(heap, disk, cur)
                  /\ goes([c EXCEPT !.pc = returned(rest), !.stack = rest])
                  /\ UNCHANGED <<heap, head, nextNodeIndex>>
             [] c.pc = "reindex" ->       \* line 678: t.reassignNodeIndices()
                  /\ heap' = reassignNodeIndices(heap, head)
                  /\ nextNodeIndex' = reassignNext(heap, head, nextNodeIndex)
                  /\ goes([c EXCEPT !.op = "inserted"])
                  /\ UNCHANGED <<head, disk>>
    /\ UNCHANGED <<now, ret, given, scn, trk, steps, membersOnly, issued>>

\* thread t returns nil from its Insert; what nothing points at any more is
\* collected
InsertReturn(t) ==
    /\ proc[t].op = "inserted"
    /\ proc' = [proc EXCEPT ![t] = Idle]
    /\ heap' = [n \in Spared(heap, head, proc') |-> heap[n]]
    /\ ret' = [op |-> "Insert", arg |-> proc[t].name, ok |-> TRUE, node |-> Nil]
    /\ given' = Put(given, proc[t].name, proc[t].value)
    /\ UNCHANGED <<head, nextNodeIndex, disk, now, scn, trk, steps, membersOnly, issued>>

\* the names a caller passes: the members and the names it reads off the tree
CallNames == MemberNames \cup LiveNames

\* the structural calls, all within one reading of the clock
NextTree ==
    \/ steps < MaxOps /\ \E name \in MemberNames, value \in Values : Insert(name, value, now)
    \/ steps < MaxOps /\ \E name \in CallNames : Delete(name)
    \/ \E name \in CallNames : FindCall(name)
    \/ \E e \in Live : SaveToDisk(e)

SpecTree == Init /\ [][NextTree]_vars

\* the structural calls with one payload, and the calls that only read the tree
NextQuery ==
    \/ steps < MaxQueryOps /\ \E name \in QueryNames : Insert(name, "k1", now)
    \/ steps < MaxQueryOps /\ \E name \in QueryNames \cup LiveNames : Delete(name)
    \/ \E name \in QueryNames \cup LiveNames : GetPathCall(name)
    \/ GetLeavesCall
    \/ GetTreeStructureCall

SpecQuery == Init /\ [][NextQuery]_vars

\* Inserts only, and GetPath for the members
NextFill ==
    \/ steps < MaxFill /\ \E name \in FillNames : Insert(name, "k1", now)
    \/ \E name \in FillNames : GetPathCall(name)

SpecFill == Init /\ [][NextFill]_vars

\* Inserts and Deletes of members as time passes, and the questions about
\* what changed since a time
NextSince ==
    \/ steps < MaxSinceOps /\ \E name \in MemberNames : Insert(name, "k1", now)
    \/ steps < MaxSinceOps /\ \E name \in MemberNames : Delete(name)
    \/ Tick
    \/ \E since \in ZeroTime..MaxTime : GetModifiedNodesCall(since)
    \/ \E since \in ZeroTime..MaxTime : GetNodeChangesSinceCall(since)

SpecSince == Init /\ [][NextSince]_vars

\* the structural calls on a disk whose writes can fail
NextIO ==
    \/ steps < MaxIOOps /\ \E name \in TrackNames, w \in 0..MaxWrite :
                             InsertIO(name, "k1", w)
    \/ steps < MaxIOOps /\ \E name \in TrackNames \cup LiveNames, w \in 0..MaxWrite :
                             DeleteIO(name, w)

SpecIO == Init /\ [][NextIO]_vars

\* the structural calls on a directory whose files may refuse to be removed
NextRemove ==
    \/ steps < MaxRemoveOps /\ \E name \in MemberNames : Insert(name, "k1", now)
    \/ steps < MaxRemoveOps /\ \E name \in MemberNames \cup LiveNames, rm \in RemoveOutcomes :
                                 DeleteRm(name, rm)

SpecRemove == Init /\ [][NextRemove]_vars

\* Inserts that do not look whether the name is there, and Deletes
NextDup ==
    \/ steps < MaxDupOps /\ \E name \in TrackNames, value \in Values : InsertAny(name, value)
    \/ steps < MaxDupOps /\ \E name \in TrackNames : Delete(name)

SpecDup == Init /\ [][NextDup]_vars

\* Inserts, the clock, MarkAllAsChecked and the methods of single Elements
NextElement ==
    \/ steps < MaxElementOps /\ \E name \in TrackNames : Insert(name, "k1", now)
    \/ Tick
    \/ MarkAllAsChecked(Cardinality(Live))
    \/ steps < MaxElementOps /\ \E e \in Live, value \in TrackKeys : SetValueCall(e, value)
    \/ steps < MaxElementOps /\ \E e \in Live : MarkAsModifiedCall(e)
    \/ steps < MaxElementOps /\ \E e \in Live : MarkAsCheckedCall(e)
    \/ \E e \in Live : SaveToDisk(e)

SpecElement == Init /\ [][NextElement]_vars

\* mutations while no query runs, and queries of two threads step by step
NextReaders ==
    \/ AllIdle /\ steps < MaxReadOps /\ \E name \in TrackNames : Insert(name, "k1", now)
    \/ AllIdle /\ steps < MaxReadOps /\ \E name \in TrackNames \cup LiveNames : Delete(name)
    \/ AllIdle /\ MarkAllAsChecked(Cardinality(Live))
    \/ \E t \in Threads, op \in QueryOps : \E arg \in QueryArgs(op) : QueryStart(t, op, arg)
    \/ \E t \in Threads : QueryStep(t)
    \/ \E t \in Threads : QueryReturn(t)

SpecReaders == Init /\ [][NextReaders]_vars

\* Inserts that run as one step while no other call runs, and Inserts of two
\* threads read by read and write by write
NextWriters ==
    \/ AllIdle /\ steps < MaxWriteOps /\ \E name \in MemberNames : Insert(name, "k1", now)
    \/ \E t \in Threads, name \in MemberNames :
          steps < MaxWriteOps /\ InsertStart(t, name, "k1")
    \/ \E t \in Threads : InsertStep(t)
    \/ \E t \in Threads : InsertReturn(t)

SpecWriters == Init /\ [][NextWriters]_vars

\* one Element given any index, and the index methods called on it
NextIndex ==
    \/ head = Nil /\ Insert("a", "k1", now)
    \/ \E index \in 0..MaxIndex : SetNodeIndexCall(index)
    \/ ParentIndexCall
    \/ LeftChildIndexCall
    \/ RightChildIndexCall
    \/ SiblingIndexCall
    \/ IsLeftChildCall
    \/ IsRightChildCall

SpecIndex == Init /\ [][NextIndex]_vars

\* the change-tracking calls, the clock advancing between and within them
NextTrack ==
    \/ steps < MaxTrackOps /\ \E name \in TrackNames, t2 \in {now, now + 1} :
                                 t2 <= MaxTime /\ Insert(name, "k1", t2)
    \/ steps < MaxTrackOps /\ \E name \in TrackNames \cup LiveNames : Delete(name)
    \/ Tick
    \/ \E k \in 0..Cardinality(Live) : MarkAllAsChecked(k)
    \/ \E name \in TrackNames \cup LiveNames, value \in TrackKeys :
           updateUserKey(name, value)
    \/ \E name \in TrackNames \cup LiveNames, key \in TrackKeys :
           SetIntermediateNodeKey(name, key)

SpecTrack == Init /\ [][NextTrack]_vars

\* ------------------------------------------------------------ what is checked

\* the last call was an Insert or a Delete and it returned nil
Mutated == ret.op \in {"Insert", "Delete"} /\ ret.ok

\* the node whose leftChild or rightChild is n, Nil for the head
Parent(h, hd, n) ==
    LET ps == {m \in Subtree(h, hd) : h[m].leftChild = n \/ h[m].rightChild = n}
    IN  IF ps = {} THEN Nil ELSE CHOOSE m \in ps : TRUE

\* C1: after every successful Insert and Delete the node indices of the live
\* nodes are exactly 0..size-1 without gap or duplicate, the head is the only
\* node with index 0, and the indices follow the breadth-first,
\* left-before-right visiting order of the current shape.
C1_IndicesLevelOrder ==
    Mutated =>
        /\ {heap[n].nodeIndex : n \in Live} = 0..(Cardinality(Live) - 1)
        /\ \A m, n \in Live : m # n => heap[m].nodeIndex # heap[n].nodeIndex
        /\ \A n \in Live : heap[n].nodeIndex = 0 <=> n = head
        /\ LET order == BFS(heap, head)
           IN  \A i \in DOMAIN order : heap[order[i]].nodeIndex = i - 1

\* a Delete has just left a shape that is not a complete tree, and it is indexed
C1_Witness ==
    /\ ret.op = "Delete" /\ ret.ok
    /\ Cardinality(Live) >= 3
    /\ \E n \in Live : heap[n].leftChild = Nil /\ heap[n].rightChild # Nil

\* C2: after any successful Inserts and Deletes, GetNodeByIndex(ParentIndex(i))
\* is the actual parent of the node with index i > 0, and the actual left and
\* right children of the node with index j have the indices 2j+1 and 2j+2.
C2_IndexArithmeticMatchesLinks ==
    Mutated =>
        \A n \in Live :
            /\ n # head =>
                GetNodeByIndex(heap, head, ParentIndex(heap[n].nodeIndex)) = Parent(heap, head, n)
            /\ heap[n].leftChild # Nil =>
                heap[heap[n].leftChild].nodeIndex = LeftChildIndex(heap[n].nodeIndex)
            /\ heap[n].rightChild # Nil =>
                heap[heap[n].rightChild].nodeIndex = RightChildIndex(heap[n].nodeIndex)

\* C3: after any successful Inserts and Deletes every node's leftCount and
\* rightCount are the numbers of nodes reachable through leftChild and
\* rightChild, so 1 + head.LeftCount() + head.RightCount() is the tree's size.
C3_CountsAreSubtreeSizes ==
    Mutated =>
        /\ \A n \in Live :
            /\ heap[n].leftCount = Cardinality(Subtree(heap, heap[n].leftChild))
            /\ heap[n].rightCount = Cardinality(Subtree(heap, heap[n].rightChild))
        /\ head # Nil => 1 + heap[head].leftCount + heap[head].rightCount = Cardinality(Live)

\* C4: after any successful Inserts (each of a name no node has at that
\* moment) and Deletes, no two live nodes have the same name.
C4_NamesUnique ==
    \A m, n \in Live : m # n => heap[m].name # heap[n].name

\* C5: Find(n) reports found exactly when a live node named n exists (for a
\* member name: inserted and not deleted since), the node returned is named n
\* and, if a leaf, holds the payload given at its Insert; Find changes nothing.
C5_FindState ==
    /\ \A name \in CallNames :
        LET f == Find(heap, head, name)
        IN  /\ f # Nil <=> name \in LiveNames
            /\ name \in MemberNames => (f # Nil <=> name \in DOMAIN given)
            /\ f # Nil =>
                /\ heap[f].name = name
                /\ heap[f].nodeType = "leaf" => heap[f].publicKey = given[name]
    /\ ret.op = "Find" =>
        /\ ret.ok <=> ret.arg \in LiveNames
        /\ ret.ok => heap[ret.node].name = ret.arg

C5_Find ==
    /\ []C5_FindState
    /\ [][ret'.op = "Find" => UNCHANGED <<heap, head, nextNodeIndex, disk>>]_vars

\* Find has just found a member below the head, after a Delete took place
C5_Witness ==
    /\ ret.op = "Find" /\ ret.ok /\ ret.arg \in MemberNames
    /\ ret.node # head
    /\ \E name \in MemberNames : name \notin DOMAIN given
    /\ heap[ret.node].publicKey = "k2"

\* the node deleteNode removes for that name: the first one in pre-order
DeleteTarget(h, hd, name) ==
    LET order == PreOrder(h, hd)
        hits == {i \in DOMAIN order : h[order[i]].name = name}
    IN  IF hits = {} THEN Nil ELSE order[Min(hits)]

ScenarioDone ==
    /\ scn.phase = "prune"
    /\ Len(scn.order) % 2 = 0
    /\ 2 * scn.k = Len(scn.order)

\* C7: after inserting N names and deleting every other one, exactly N/2
\* records are in the storage directory, exactly the N/2 names not deleted
\* are findable and every deleted name is unfindable.
C7_HalfRemain ==
    ScenarioDone =>
        /\ Cardinality(DOMAIN disk) = Len(scn.order) - scn.k
        /\ \A i \in DOMAIN scn.order :
            Find(heap, head, scn.order[i]) # Nil <=> i % 2 = 0

\* C8: immediately after MarkAllAsChecked, GetNodesNeedingUpdate returns no
\* node: every node's lastChecked is not earlier than its lastModified.
C8_NothingNeedsUpdate ==
    ret.op = "MarkAllAsChecked" =>
        /\ GetNodesNeedingUpdate(heap, head) = <<>>
        /\ \A n \in Live : heap[n].lastChecked >= heap[n].lastModified

\* MarkAllAsChecked has just run over a tree of three nodes or more, one of
\* them modified after the tree was built and one checked at the very
\* reading of its last modification
C8_Witness ==
    /\ ret.op = "MarkAllAsChecked"
    /\ Cardinality(Live) >= 3
    /\ \E n \in Live : heap[n].lastModified > 1
    /\ \E n \in Live : heap[n].lastChecked = heap[n].lastModified

\* C9 as stated: after MarkAllAsChecked, once the payloads of exactly the
\* nodes of S were updated, each followed by MarkAsModified, and nothing else
\* was inserted, modified or re-marked, GetNodesNeedingUpdate returns exactly S.
C9_ExactlyTheUpdated ==
    trk.valid => Range(GetNodesNeedingUpdate(heap, head)) = trk.S

\* C9 with its missing condition: the same, provided every MarkAsModified read
\* the clock strictly after the lastChecked that MarkAllAsChecked left on its node.
C9_ExactlyTheUpdatedLater ==
    (trk.valid /\ trk.late) => Range(GetNodesNeedingUpdate(heap, head)) = trk.S

\* two nodes were updated after a MarkAllAsChecked, each at a later reading of
\* the clock, and a third node was left alone
C9_Witness ==
    /\ trk.valid /\ trk.late
    /\ Cardinality(trk.S) >= 2
    /\ Live \ trk.S # {}
    /\ ret.op = "updateUserKey" /\ ret.ok

\* C10: a node saved (saveToDisk) and loaded back (loadFromDisk) comes back with
\* the same name, payload, kind, leftCount, rightCount, lastModified and
\* lastChecked.
C10_RoundTrip ==
    (ret.op = "SaveToDisk" /\ ret.ok) =>
        LET e == heap[ret.node]
            l == loadFromDisk(disk, e.filePath, {})
        IN  /\ l.status = "ok"
            /\ l.element.name = e.name
            /\ l.element.publicKey = e.publicKey
            /\ l.element.nodeType = e.nodeType
            /\ l.element.leftCount = e.leftCount
            /\ l.element.rightCount = e.rightCount
            /\ l.element.lastModified = e.lastModified
            /\ l.element.lastChecked = e.lastChecked

\* C11: for the name of a live node GetPath returns a non-empty path that
\* starts at the head, ends at a node of that name and steps from each node
\* to one of its children; for any other name, and on the empty tree, it
\* returns an error and no path.
C11_GetPath ==
    /\ \A name \in QueryNames \cup LiveNames :
        LET g == GetPath(heap, head, name)
            path == g.path
        IN  IF name \in LiveNames
            THEN /\ ~g.err
                 /\ Len(path) >= 1
                 /\ path[1] = head
                 /\ heap[path[Len(path)]].name = name
                 /\ \A i \in 2..Len(path) :
                        path[i] # Nil /\ path[i] \in {heap[path[i - 1]].leftChild,
                                                      heap[path[i - 1]].rightChild}
            ELSE g.err /\ path = <<>>
    /\ ret.op = "GetPath" =>
        /\ ret.ok <=> ret.arg \in LiveNames
        /\ ret.path = GetPath(heap, head, ret.arg).path

\* GetPath has just returned a path of three nodes or more that leaves some
\* node by its right child
C11_Witness ==
    /\ ret.op = "GetPath" /\ ret.ok
    /\ Len(ret.path) >= 3
    /\ \E i \in 2..Len(ret.path) : ret.path[i] = heap[ret.path[i - 1]].rightChild

\* the nodes of the tree of one kind
OfKind(kind) == {n \in Live : heap[n].nodeType = kind}

\* C12: after N >= 1 successful Inserts of distinct names into an empty tree
\* and no Delete, the tree has N leaves and N-1 intermediates, every
\* intermediate has two children, and for N = 1 the head is the inserted leaf.
C12_InsertOnlyShape ==
    (scn.phase = "fill" /\ Len(scn.order) >= 1) =>
        LET N == Len(scn.order)
        IN  /\ Cardinality(OfKind("leaf")) = N
            /\ Cardinality(OfKind("intermediate")) = N - 1
            /\ Cardinality(Live) = 2 * N - 1
            /\ Len(GetLeaves(heap, head)) = N
            /\ \A n \in OfKind("intermediate") :
                    heap[n].leftChild # Nil /\ heap[n].rightChild # Nil
            /\ \A n \in OfKind("leaf") : IsLeaf(heap, n)
            /\ N = 1 => (heap[head].nodeType = "leaf" /\ heap[head].name = scn.order[1])

\* the fourth Insert in a row has just succeeded
C12_Witness ==
    /\ scn.phase = "fill" /\ Len(scn.order) >= 4
    /\ ret.op = "Insert" /\ ret.ok

\* C13: after any Inserts of distinct member names and Deletes of member
\* names, GetLeaves returns exactly the members present: every node returned
\* is of kind leaf and named after a member inserted and not deleted since,
\* and every such member is returned.
C13_LeavesAreMembers ==
    membersOnly =>
        LET leaves == GetLeaves(heap, head)
        IN  /\ \A i \in DOMAIN leaves :
                /\ heap[leaves[i]].nodeType = "leaf"
                /\ heap[leaves[i]].name \in DOMAIN given
            /\ {heap[n].name : n \in Range(leaves)} = DOMAIN given
            /\ ret.op = "GetLeaves" => ret.leaves = leaves

\* C14: after any successful Inserts and Deletes every intermediate has
\* exactly two children and every leaf has none; no Delete leaves a one-child
\* or childless intermediate behind.
C14_NoStubs ==
    /\ \A n \in OfKind("intermediate") :
            heap[n].leftChild # Nil /\ heap[n].rightChild # Nil
    /\ \A n \in OfKind("leaf") : IsLeaf(heap, n)

\* C15: after every successful Delete each surviving intermediate is named
\* intermediate_<first leaf of its left subtree>_<first leaf of its right
\* subtree>, after the leaves now below it.
C15_NamesRegenerated ==
    (ret.op = "Delete" /\ ret.ok) =>
        \A n \in OfKind("intermediate") :
            LET leftLeafNames == collectLeafNames(heap, heap[n].leftChild)
                rightLeafNames == collectLeafNames(heap, heap[n].rightChild)
            IN  /\ leftLeafNames # <<>>
                /\ rightLeafNames # <<>>
                /\ heap[n].name = IntermediateName(leftLeafNames[1], rightLeafNames[1])

\* C16: SetIntermediateNodeKey(name, key) returns an error and changes no
\* payload, timestamp or record when no node has that name or the node is a
\* leaf; on an intermediate it sets the payload to key, stamps lastModified,
\* writes the record and leaves every other node as it was.
C16_SetIntermediateNodeKey ==
    [][(ret'.op = "SetIntermediateNodeKey" /\ ret' # ret) =>
        LET e == Find(heap, head, ret'.arg)
        IN  IF e = Nil \/ heap[e].nodeType = "leaf"
            THEN ~ret'.ok /\ UNCHANGED <<heap, head, nextNodeIndex, disk>>
            ELSE /\ ret'.ok
                 /\ heap[e].nodeType = "intermediate"
                 /\ heap' = [heap EXCEPT ![e].publicKey = ret'.key,
                                         ![e].lastModified = now]
                 /\ disk' = Put(disk, heap[e].filePath, elementData(heap', e))
                 /\ UNCHANGED <<head, nextNodeIndex>>]_vars

\* a key was set on an intermediate that was created at an earlier reading of
\* the clock, and before that a call on a leaf was refused
C16_Witness ==
    /\ ret.op = "SetIntermediateNodeKey" /\ ret.ok
    /\ heap[ret.node].publicKey = ret.key
    /\ heap[ret.node].lastModified = now /\ now > 1
    /\ \E n \in OfKind("leaf") : heap[n].lastModified < now

C18_DeleteAbsent ==
    [][(ret'.op = "Delete" /\ steps' = steps + 1 /\ ret'.arg \notin LiveNames) =>
        /\ ~ret'.ok
        /\ UNCHANGED <<heap, head, nextNodeIndex, disk>>]_vars

\* a Delete of an absent name has just been refused on a tree of three nodes
\* or more
C18_Witness ==
    /\ ret.op = "Delete" /\ ~ret.ok
    /\ ret.arg \notin LiveNames
    /\ Cardinality(Live) >= 3

\* C19: whenever a record write fails during an Insert or a Delete, the call
\* returns an error and never reports success.
C19_WriteFailureSurfaces ==
    (ret.op \in {"Insert", "Delete"} /\ "wfail" \in DOMAIN ret /\ ret.wfail) => ~ret.ok

\* C20: for every index n >= 0, ParentIndex is -1 for n = 0 and
\* floor((n-1)/2) otherwise, LeftChildIndex is 2n+1, RightChildIndex is 2n+2,
\* SiblingIndex is -1 for 0, n+1 for odd n and n-1 for even n > 0, IsLeftChild
\* holds iff n is odd and IsRightChild iff n is even and positive; the parent
\* of both children of n is n, and for n > 0 the sibling of the sibling is n
\* and both have the same parent.
C20_IndexArithmetic ==
    head # Nil =>
        LET n == heap[head].nodeIndex
            p == ParentIndex(n)
            odd == \E k \in 0..n : n = 2 * k + 1
        IN  /\ n = 0 => p = -1
            /\ n > 0 => (2 * p <= n - 1 /\ n - 1 < 2 * p + 2)
            /\ LeftChildIndex(n) = n + n + 1
            /\ RightChildIndex(n) = n + n + 2
            /\ SiblingIndex(n) = (IF n = 0 THEN -1 ELSE IF odd THEN n + 1 ELSE n - 1)
            /\ IsLeftChild(n) <=> odd
            /\ IsRightChild(n) <=> (~odd /\ n > 0)
            /\ ParentIndex(LeftChildIndex(n)) = n
            /\ ParentIndex(RightChildIndex(n)) = n
            /\ n > 0 => /\ SiblingIndex(SiblingIndex(n)) = n
                        /\ ParentIndex(SiblingIndex(n)) = p
            /\ ret.op = "ParentIndex" => ret.val = p
            /\ ret.op = "LeftChildIndex" => ret.val = 2 * n + 1
            /\ ret.op = "RightChildIndex" => ret.val = 2 * n + 2
            /\ ret.op = "SiblingIndex" => ret.val = SiblingIndex(n)
            /\ ret.op = "IsLeftChild" => (ret.val <=> odd)
            /\ ret.op = "IsRightChild" => (ret.val <=> (~odd /\ n > 0))

\* SiblingIndex has just been called on an Element with an even index beyond
\* the first levels
C20_Witness ==
    /\ ret.op = "SiblingIndex"
    /\ heap[head].nodeIndex >= 8
    /\ ret.val = heap[head].nodeIndex - 1

\* C21: after any successful Inserts and Deletes GetTreeStructure has exactly
\* one entry per live node, keyed by the node's name, reporting its payload,
\* kind, leaf index, node index, the ParentIndex of that index and the names
\* of its children; the NodeIndex values are exactly 0..len-1.
C21_StructureSnapshot ==
    LET structure == GetTreeStructure(heap, head)
    IN  /\ Cardinality(DOMAIN structure) = Cardinality(Live)
        /\ \A n \in Live :
            /\ heap[n].name \in DOMAIN structure
            /\ structure[heap[n].name] = NodeInfo(heap, n)
        /\ {structure[k].NodeIndex : k \in DOMAIN structure}
               = 0..(Cardinality(DOMAIN structure) - 1)
        /\ ret.op = "GetTreeStructure" => ret.structure = structure

\* the loaded element el (<<>> for nil) has the shape and the names, payloads,
\* kinds, counts and timestamps of the in-memory subtree at node
RECURSIVE SameTree(_, _, _)
SameTree(h, node, el) ==
    IF node = Nil THEN el = <<>>
    ELSE /\ el # <<>>
         /\ el[1].name = h[node].name
         /\ el[1].publicKey = h[node].publicKey
         /\ el[1].nodeType = h[node].nodeType
         /\ el[1].leftCount = h[node].leftCount
         /\ el[1].rightCount = h[node].rightCount
         /\ el[1].lastModified = h[node].lastModified
         /\ el[1].lastChecked = h[node].lastChecked
         /\ SameTree(h, h[node].leftChild, el[1].leftChild)
         /\ SameTree(h, h[node].rightChild, el[1].rightChild)

\* C22: after successful Insert, Delete, SetIntermediateNodeKey and
\* MarkAllAsChecked calls, LoadTree(rootPath, name of the head) rebuilds from
\* the persisted records a tree with the shape, names, payloads, kinds, counts
\* and timestamps of the in-memory tree.
C22_LoadTreeRoundTrip ==
    head # Nil =>
        LET l == LoadTree(disk, heap[head].name)
        IN  l.status = "ok" /\ SameTree(heap, head, l.head)

\* C23: the nodes an Insert creates (the leaf and, if any, the intermediate)
\* carry a lastModified stamped during that Insert and the zero lastChecked,
\* and a node is returned by GetNodesNeedingUpdate from then on for as long as
\* its lastChecked is still the zero time.
C23_NewNodesNeedUpdate ==
    [][ /\ \A n \in Live' \ Live :
            /\ heap'[n].lastChecked = ZeroTime
            /\ heap'[n].lastModified \in now..now'
            /\ heap'[n].lastModified > ZeroTime
        /\ \A n \in Live' :
            heap'[n].lastChecked = ZeroTime =>
                n \in Range(GetNodesNeedingUpdate(heap', head')) ]_vars

\* an Insert has just created a leaf and an intermediate, both never checked
\* and both reported, next to a node that was marked checked before
C23_Witness ==
    /\ ret.op = "Insert" /\ ret.ok
    /\ \E m \in Live : heap[m].lastChecked > ZeroTime
    /\ \E n, i \in Range(GetNodesNeedingUpdate(heap, head)) :
        /\ heap[n].nodeType = "leaf" /\ heap[n].lastChecked = ZeroTime
        /\ heap[i].nodeType = "intermediate" /\ heap[i].lastChecked = ZeroTime

\* C24: an Insert, a Delete or a SetIntermediateNodeKey that changes a
\* surviving node's children, parent, name or payload leaves that node
\* among the nodes GetNodesNeedingUpdate returns, also when the node had been
\* marked checked before.
C24_ChangeIsStamped ==
    [][ ret'.op \in {"Insert", "Delete", "SetIntermediateNodeKey"} =>
        \A n \in Live \cap Live' :
            ( \/ heap'[n].leftChild # heap[n].leftChild
              \/ heap'[n].rightChild # heap[n].rightChild
              \/ Parent(heap', head', n) # Parent(heap, head, n)
              \/ heap'[n].name # heap[n].name
              \/ heap'[n].publicKey # heap[n].publicKey )
            => n \in Range(GetNodesNeedingUpdate(heap', head')) ]_vars

\* C25: each newly inserted leaf receives a leafIndex strictly greater than
\* the leafIndex given to every leaf inserted before it, deleted or not.
C25_LeafIndexIncreasing ==
    [][ (ret'.op = "Insert" /\ ret'.ok /\ steps' # steps) =>
            heap'[Find(heap', head', ret'.arg)].leafIndex > issued ]_vars

\* C26: when Delete removes a node with two children, its left child takes
\* its place (the same slot of the same parent, or the head), its right child
\* becomes the right child of the rightmost node of the promoted left subtree,
\* and no other parent-child link changes.
C26_TwoChildSplice ==
    [][(/\ ret'.op = "Delete" /\ ret'.ok /\ steps' = steps + 1
        /\ heap[DeleteTarget(heap, head, ret'.arg)].leftChild # Nil
        /\ heap[DeleteTarget(heap, head, ret'.arg)].rightChild # Nil) =>
          LET target == DeleteTarget(heap, head, ret'.arg)
              left == heap[target].leftChild
              right == heap[target].rightChild
              parent == Parent(heap, head, target)
              current == Rightmost(heap, left)
          IN  /\ Subtree(heap', head') = Live \ {target}
              /\ parent = Nil => head' = left
              /\ parent # Nil =>
                    /\ head' = head
                    /\ heap[parent].leftChild = target =>
                          /\ heap'[parent].leftChild = left
                          /\ heap'[parent].rightChild = heap[parent].rightChild
                    /\ heap[parent].leftChild # target =>
                          /\ heap'[parent].rightChild = left
                          /\ heap'[parent].leftChild = heap[parent].leftChild
              /\ heap'[current].rightChild = right
              /\ heap'[current].leftChild = heap[current].leftChild
              /\ \A n \in Live \ {target, parent, current} :
                    /\ heap'[n].leftChild = heap[n].leftChild
                    /\ heap'[n].rightChild = heap[n].rightChild
      ]_vars

\* four members were inserted and then an intermediate, which had two
\* children, was deleted: a leaf now carries the removed node's right subtree
C26_Witness ==
    /\ ret.op = "Delete" /\ ret.ok
    /\ steps = 5 /\ Cardinality(DOMAIN given) = 4
    /\ Cardinality(Live) = 6
    /\ \E n \in Live :
        /\ heap[n].nodeType = "leaf"
        /\ heap[n].rightChild # Nil
        /\ heap[heap[n].rightChild].nodeType = "intermediate"

\* where the descent of insertToLeaf from node ends: the childless node it
\* reaches, or Nil when it comes to an empty slot of a node with one child
RECURSIVE descent(_, _)
descent(h, node) ==
    IF h[node].leftChild = Nil /\ h[node].rightChild = Nil THEN node
    ELSE IF countLeaves(h, h[node].leftChild) <= countLeaves(h, h[node].rightChild)
         THEN IF h[node].leftChild = Nil THEN Nil ELSE descent(h, h[node].leftChild)
         ELSE IF h[node].rightChild = Nil THEN Nil ELSE descent(h, h[node].rightChild)

\* C27: when an Insert into a non-empty tree ends its descent on a childless
\* node x, a new intermediate takes x's slot, with x as its left child and the
\* new leaf as its right child; every other parent-child link is unchanged
\* and no node that existed before changes its name, payload, kind or leafIndex.
C27_LeafSplit ==
    [][(/\ ret'.op = "Insert" /\ ret'.ok /\ steps' = steps + 1
        /\ head # Nil /\ descent(heap, head) # Nil) =>
          LET x == descent(heap, head)
              parent == Parent(heap, head, x)
              new == Subtree(heap', head') \ Live
          IN  /\ Live \subseteq Subtree(heap', head')
              /\ \E intermediateNode, newElement \in new :
                    /\ new = {intermediateNode, newElement}
                    /\ intermediateNode # newElement
                    /\ heap'[intermediateNode].nodeType = "intermediate"
                    /\ heap'[intermediateNode].leftChild = x
                    /\ heap'[intermediateNode].rightChild = newElement
                    /\ heap'[newElement].nodeType = "leaf"
                    /\ heap'[newElement].name = ret'.arg
                    /\ heap'[newElement].leftChild = Nil
                    /\ heap'[newElement].rightChild = Nil
                    /\ parent = Nil => head' = intermediateNode
                    /\ parent # Nil =>
                          /\ head' = head
                          /\ heap[parent].leftChild = x =>
                                /\ heap'[parent].leftChild = intermediateNode
                                /\ heap'[parent].rightChild = heap[parent].rightChild
                          /\ heap[parent].leftChild # x =>
                                /\ heap'[parent].rightChild = intermediateNode
                                /\ heap'[parent].leftChild = heap[parent].leftChild
              /\ \A n \in Live \ {parent} :
                    /\ heap'[n].leftChild = heap[n].leftChild
                    /\ heap'[n].rightChild = heap[n].rightChild
              /\ \A n \in Live :
                    /\ heap'[n].name = heap[n].name
                    /\ heap'[n].publicKey = heap[n].publicKey
                    /\ heap'[n].nodeType = heap[n].nodeType
                    /\ heap'[n].leafIndex = heap[n].leafIndex
      ]_vars

\* only Inserts were made, three or more, and the last one split a leaf below
\* the head: the new leaf is the right child of a new intermediate whose
\* left child is the leaf the descent ended on
C27_Witness ==
    /\ ret.op = "Insert" /\ ret.ok
    /\ steps >= 3 /\ Cardinality(DOMAIN given) = steps
    /\ \E i \in Live \ {head} :
        /\ heap[i].rightChild # Nil /\ heap[i].leftChild # Nil
        /\ heap[heap[i].rightChild].name = ret.arg
        /\ heap[i].name = IntermediateName(heap[heap[i].leftChild].name, ret.arg)

\* the least k with 2^k >= n: ceil(log2 n)
CeilLog2(n) == CHOOSE k \in 0..n : 2^k >= n /\ (k = 0 \/ 2^(k - 1) < n)

\* the number of leaf-kind nodes below and including n
LeavesBelow(n) ==
    IF n = Nil THEN 0
    ELSE Cardinality({l \in Subtree(heap, n) : heap[l].nodeType = "leaf"})

\* C28: in a tree built from the empty tree by Inserts only, at every
\* intermediate the leaves of the left subtree outnumber those of the right
\* subtree by 0 or 1, and GetPath for any of the N members returns at most
\* ceil(log2 N) + 1 nodes.
C28_Balanced ==
    (scn.phase = "fill" /\ Len(scn.order) >= 1) =>
        LET N == Len(scn.order)
        IN  /\ \A n \in OfKind("intermediate") :
                LeavesBelow(heap[n].leftChild) - LeavesBelow(heap[n].rightChild)
                    \in {0, 1}
            /\ \A i \in 1..N :
                LET g == GetPath(heap, head, scn.order[i])
                IN  ~g.err /\ Len(g.path) <= CeilLog2(N) + 1
            /\ (ret.op = "GetPath" /\ ret.ok) => Len(ret.path) <= CeilLog2(N) + 1

\* five members were inserted and GetPath has returned a path of four nodes,
\* as many as the bound allows
C28_Witness ==
    /\ scn.phase = "fill" /\ Len(scn.order) = 5
    /\ ret.op = "GetPath" /\ ret.ok
    /\ Len(ret.path) = 4
    /\ LeavesBelow(heap[head].leftChild) = LeavesBelow(heap[head].rightChild) + 1

\* C29: for any time t, GetModifiedNodes(t) returns exactly the live nodes
\* whose lastModified is strictly after t, and GetNodeChangesSince(t) maps
\* exactly the names of those nodes, each to its node's lastModified; with t
\* the zero time both cover every live node.
C29_ChangesSince ==
    /\ \A t \in ZeroTime..MaxTime :
        LET S == {n \in Live : heap[n].lastModified > t}
            nodes == GetModifiedNodes(heap, head, t)
            changes == GetNodeChangesSince(heap, head, t)
        IN  /\ Range(nodes) = S
            /\ Len(nodes) = Cardinality(S)
            /\ DOMAIN changes = {heap[n].name : n \in S}
            /\ \A n \in S : changes[heap[n].name] = heap[n].lastModified
            /\ t = ZeroTime => (S = Live /\ DOMAIN changes = LiveNames)
    /\ ret.op = "GetModifiedNodes" =>
            ret.nodes = GetModifiedNodes(heap, head, ret.since)
    /\ ret.op = "GetNodeChangesSince" =>
            ret.changes = GetNodeChangesSince(heap, head, ret.since)

\* C30: when removing the deleted node's file fails, Delete still returns
\* success, the name is no longer findable, the tree is the re-indexed tree
\* the Delete would have left otherwise, and the storage differs from that of
\* the Delete with a successful removal only in the old record, which remains
\* as an orphan.
C30_RemoveBestEffort ==
    [][(/\ ret'.op = "Delete" /\ steps' = steps + 1
        /\ DeleteTarget(heap, head, ret'.arg) # Nil
        /\ ~ret'.rm.found) =>
          LET target == DeleteTarget(heap, head, ret'.arg)
              path == heap[target].filePath
              done == TreeDelete(heap, head, nextNodeIndex, disk, ret'.arg, 0,
                                 [ret'.rm EXCEPT !.found = TRUE])
              live == Subtree(heap', head')
          IN  /\ ret'.ok
              /\ target \notin live
              /\ Find(heap', head', ret'.arg) = Nil
              /\ heap' = done.heap /\ head' = done.head
              /\ {heap'[n].nodeIndex : n \in live} = 0..(Cardinality(live) - 1)
              /\ \A p \in (DOMAIN disk' \cup DOMAIN done.disk) \ {path} :
                    /\ p \in DOMAIN disk' /\ p \in DOMAIN done.disk
                    /\ disk'[p] = done.disk[p]
              /\ path \in DOMAIN disk =>
                    /\ path \in DOMAIN disk'
                    /\ path \notin DOMAIN done.disk
                    /\ disk'[path] = disk[path]
                    /\ \A n \in live : heap'[n].filePath # path
      ]_vars

\* C31: Insert(n, v) while a leaf named n is in the tree returns success and
\* creates an intermediate and a second leaf named n; afterwards two live
\* nodes carry the name n and share a single persisted record.
C31_DuplicateAccepted ==
    [][(ret'.op = "Insert" /\ steps' = steps + 1 /\ ret'.dup) =>
          LET new == Subtree(heap', head') \ Live
              named == {n \in Subtree(heap', head') : heap'[n].name = ret'.arg}
          IN  /\ ret'.ok
              /\ Live \subseteq Subtree(heap', head')
              /\ \E i, l \in new :
                    /\ new = {i, l} /\ i # l
                    /\ heap'[i].nodeType = "intermediate"
                    /\ heap'[l].nodeType = "leaf" /\ heap'[l].name = ret'.arg
              /\ Cardinality(named) >= 2
              /\ \A n \in named : heap'[n].filePath = generateFilePath(ret'.arg)
              /\ generateFilePath(ret'.arg) \in DOMAIN disk'
      ]_vars

\* every field of node n but those of the set changed is as it was
SameBut(n, changed) ==
    \A f \in DOMAIN heap[n] \ changed : heap'[n][f] = heap[n][f]

\* C32: SetValue changes only the payload of its node in memory, leaving
\* lastModified, lastChecked and every record as they were, so it adds no
\* node to GetNodesNeedingUpdate (none when MarkAllAsChecked left it empty);
\* MarkAsModified and MarkAsChecked change only their own timestamp of their
\* node and write no record.
C32_NoAutomaticDirty ==
    [][(ret'.op \in {"SetValue", "MarkAsModified", "MarkAsChecked"}
        /\ steps' = steps + 1) =>
          LET e == ret'.node
              own == CASE ret'.op = "SetValue" -> {"publicKey"}
                       [] ret'.op = "MarkAsModified" -> {"lastModified"}
                       [] ret'.op = "MarkAsChecked" -> {"lastChecked"}
          IN  /\ DOMAIN heap' = DOMAIN heap
              /\ SameBut(e, own)
              /\ \A n \in Live \ {e} : heap'[n] = heap[n]
              /\ head' = head /\ nextNodeIndex' = nextNodeIndex
              /\ disk' = disk
              /\ ret'.op = "SetValue" =>
                    /\ heap'[e].publicKey \in TrackKeys
                    /\ GetNodesNeedingUpdate(heap', head')
                           = GetNodesNeedingUpdate(heap, head)
              /\ ret'.op = "MarkAsModified" => heap'[e].lastModified = now
              /\ ret'.op = "MarkAsChecked" => heap'[e].lastChecked = now
      ]_vars

\* after MarkAllAsChecked the payload of a node of a tree of three was set
\* and nothing else: no node needs an update and the record of the node
\* still holds the old payload
C32_Witness ==
    /\ ret.op = "SetValue"
    /\ Cardinality(Live) = 3
    /\ \A n \in Live : heap[n].lastChecked > ZeroTime
    /\ GetNodesNeedingUpdate(heap, head) = <<>>
    /\ heap[ret.node].publicKey = "k2"
    /\ disk[heap[ret.node].filePath].PublicKey # "k2"

\* what the query op(arg) returns when it runs alone on the tree
Alone(op, arg) ==
    CASE op = "Find" -> Find(heap, head, arg)
      [] op = "GetPath" -> GetPath(heap, head, arg).path
      [] op = "GetNodeByIndex" -> GetNodeByIndex(heap, head, arg)
      [] op = "GetTreeStructure" -> GetTreeStructure(heap, head)
      [] op = "GetLeaves" -> GetLeaves(heap, head)
      [] op = "GetModifiedNodes" -> GetModifiedNodes(heap, head, arg)
      [] op = "GetNodesNeedingUpdate" ->
            IF head = Nil THEN <<>> ELSE GetNodesNeedingUpdate(heap, head)
      [] op = "GetNodeChangesSince" -> GetNodeChangesSince(heap, head, arg)

\* C33: no step of a read-only query changes a field of a node, the head or
\* a record, and a query that returns while another thread is inside a query
\* of its own returns what it returns when run alone.
C33_QueriesCommute ==
    [][ /\ proc' # proc => UNCHANGED <<heap, head, nextNodeIndex, disk>>
        /\ \A t \in Threads :
            (proc[t].op \in QueryOps /\ proc'[t].op = "done") =>
                proc'[t].result = Alone(proc[t].op, proc[t].arg) ]_vars

\* two threads have both returned from queries that ran interleaved on a
\* tree of three nodes: one searched, the other collected
C33_Witness ==
    /\ Cardinality(Live) = 3
    /\ proc[1].op = "done" /\ proc[2].op = "done"
    /\ proc[1].call = "GetPath" /\ Len(proc[1].result) = 2
    /\ proc[2].call = "GetNodesNeedingUpdate" /\ Len(proc[2].result) = 3

\* every intermediate's counts are the numbers of leaves below its two slots
LeafCountsHold(h, hd) ==
    \A n \in Subtree(h, hd) : h[n].nodeType = "intermediate" =>
        /\ h[n].leftCount = countLeaves(h, h[n].leftChild)
        /\ h[n].rightCount = countLeaves(h, h[n].rightChild)

\* the indices are 0..size-1 in breadth-first order
IndicesHold(h, hd) ==
    LET order == BFS(h, hd) IN \A i \in DOMAIN order : h[order[i]].nodeIndex = i - 1

\* no update is lost and the counts and indices are right
Safe ==
    /\ DOMAIN given \subseteq LiveNames
    /\ LeafCountsHold(heap, head)
    /\ IndicesHold(heap, head)

\* C34: an Insert that runs as one step while no other call is running takes
\* a tree in which every name inserted is reachable and the counts and
\* indices are right to such a tree again, so serialized calls never leave
\* one; two Inserts interleaved at their reads and writes do (the witness).
C34_SerializedIsSafe == [][(AllIdle /\ AllIdle' /\ Safe) => Safe']_vars

\* both threads have returned nil from Inserts that ran interleaved, and a
\* name one of them inserted is not in the tree
C34_Witness ==
    /\ AllIdle
    /\ \E name \in DOMAIN given : name \notin LiveNames

\* C35: after Inserts of absent names and Deletes, every write and removal
\* succeeding, the records on the disk are those of the live nodes, one
\* record for each live node.
C35_DiskAgrees ==
    /\ DOMAIN disk = {heap[n].filePath : n \in Live}
    /\ \A m, n \in Live : m # n => heap[m].filePath # heap[n].filePath

\* C36: whenever Insert has returned, with nil or with an I/O error, the
\* indices of the live nodes are 0..size-1 in the breadth-first order of the
\* shape the tree then has.
C36_ReindexedAfterInsert ==
    ret.op = "Insert" =>
        /\ {heap[n].nodeIndex : n \in Live} = 0..(Cardinality(Live) - 1)
        /\ IndicesHold(heap, head)

\* the Elements of a loaded tree in the order the queue of GetNodeByIndex
\* visits them (a loaded Element holds its children, <<>> for nil)
RECURSIVE LoadedBreadthFirst(_)
LoadedBreadthFirst(queue) ==
    IF queue = <<>> THEN <<>>
    ELSE <<Head(queue)>>
         \o LoadedBreadthFirst(Tail(queue) \o Head(queue).leftChild \o Head(queue).rightChild)

\* GetNodeByIndex(targetIndex) on the tree LoadTree returned with head hd:
\* the first Element in queue order that has the index, <<>> for nil
LoadedGetNodeByIndex(hd, targetIndex) ==
    LET hits == SelectSeq(LoadedBreadthFirst(hd), LAMBDA e : e.nodeIndex = targetIndex)
    IN  IF hits = <<>> THEN <<>> ELSE <<hits[1]>>

\* C37: in the tree LoadTree returns for the persisted tree the head is the
\* only node with index 0, and GetNodeByIndex(i) returns a node of the name
\* that GetNodeByIndex(i) has in the tree that was saved, for every i below
\* the size.
C37_LoadTreeIndexed ==
    LET l == LoadTree(disk, heap[head].name)
    IN  (head # Nil /\ l.status = "ok") =>
            LET loaded == LoadedBreadthFirst(l.head)
            IN  /\ loaded[1].nodeIndex = 0
                /\ \A k \in 2..Len(loaded) : loaded[k].nodeIndex # 0
                /\ \A i \in 0..(Cardinality(Live) - 1) :
                      LET saved_i == GetNodeByIndex(heap, head, i)
                          loaded_i == LoadedGetNodeByIndex(l.head, i)
                      IN  saved_i # Nil =>
                             loaded_i # <<>> /\ loaded_i[1].name = heap[saved_i].name

\* the intermediates above node n
AncestorsOf(h, hd, n) == {m \in Subtree(h, hd) \ {n} : n \in Subtree(h, m)}

SlotsOf(h, hd, n) ==
    {sl \in Subtree(h, hd) \X {"left", "right"} : deref(h, hd, sl) = n}

\* the nodes reached from those of S in at most k steps down
RECURSIVE Below(_, _, _)
Below(h, S, k) ==
    IF k = 0 THEN S
    ELSE Below(h, S \cup (({h[m].leftChild : m \in S} \cup {h[m].rightChild : m \in S}) \ {Nil}),
               k - 1)

\* the nodes below n
Descendants(h, n) == Below(h, {h[n].leftChild, h[n].rightChild} \ {Nil}, Cardinality(DOMAIN h))

\* C39: after Inserts and Deletes every live node but the head sits in
\* exactly one slot of exactly one live node, the head in none, and no node
\* is below itself; the walk of Delete to the rightmost node ends on a live
\* node without right child.
C39_Ownership ==
    /\ \A n \in Live \ {head} : Cardinality(SlotsOf(heap, head, n)) = 1
    /\ head # Nil => SlotsOf(heap, head, head) = {}
    /\ \A n \in DOMAIN heap : n \notin Descendants(heap, n)
    /\ \A n \in Live : Rightmost(heap, n) \in Live /\ heap[Rightmost(heap, n)].rightChild = Nil

\* a Delete has spliced a node with two children out of a tree of members
\* and intermediates: a member now carries the right subtree, and the walk
\* to the rightmost node from the head passes through it
C39_Witness ==
    /\ ret.op = "Delete" /\ ret.ok
    /\ Cardinality(Live) >= 5
    /\ \E n \in Live :
        /\ heap[n].nodeType = "leaf"
        /\ heap[n].rightChild # Nil
        /\ Rightmost(heap, head) \in Descendants(heap, n)

====
